---- MODULE Spec2Model ----
(***************************************************************************)
(* tsgo-turbo analysis orchestration engine: the AnalysisBridge            *)
(* dispatcher (priority queue, dedup, fan-out, merge), the tsgo worker     *)
(* pool, the oxc lint pool and the FileCache result cache.                 *)
(*                                                                         *)
(* One action is one run-to-completion turn of the Node event loop: a      *)
(* public call, a timer callback or a child-process event.  The promise    *)
(* continuation of executeAnalysis (after `await Promise.allSettled`) is a *)
(* microtask: while one is runnable no other turn starts (Quiescent).      *)
(***************************************************************************)
EXTENDS Integers, Sequences, FiniteSets, TLC

\* ------------------------------------------------------------------ bounds
\* Analyses (queued, running or finished) in one behaviour, cache lookups
\* between two clear() calls, clock readings, tsgo child processes alive at
\* one time, diagnostics one analyzer reports for one file, health pings a
\* worker has not answered or whose answers have not been read.
MaxRequests == 3
MaxLookups == 2
MaxClock == 1
MaxProcs == 2
MaxDiags == 2
MaxPings == 1
MaxEvictions == 2
MaxTruncations == 2
MaxSpans == 3
MaxAppends == 4

\* ------------------------------------------------------------------ inputs
Uris == {"u1", "u2"}
Contents == {"x", "y"}
Active == 0
Open == 1
Background == 2
AnalysisPriority == {Active, Open, Background}

\* Slots for QueueItems: one more than the analyses of a behaviour, since a
\* superseding item exists together with the item it supersedes.
Ids == 1..(MaxRequests + 1)

\* FileCache.computeHash: the digest of a content (a table over Contents).
computeHash(content) ==
  CASE content = "x" -> "9dd4"
    [] content = "y" -> "4152"
    [] OTHER -> "d41d"

\* ------------------------------------------------------------- diagnostics
\* A TurbodiagnosticItem; file and message are strings (sequences of
\* characters), line and column numbers.
Diag(f, l, c, m, s, k) ==
  [file |-> f, line |-> l, column |-> c, message |-> m, source |-> s, code |-> k]

\* Decimal rendering of a small number inside a template string.
NumStr(n) ==
  CASE n = 0 -> <<"0">> [] n = 1 -> <<"1">> [] n = 2 -> <<"2">>
    [] n = 3 -> <<"3">> [] OTHER -> <<"9">>

\* `${diag.file}:${diag.line}:${diag.column}:${diag.message}`
DiagKey(d) ==
  d.file \o <<":">> \o NumStr(d.line) \o <<":">> \o NumStr(d.column)
    \o <<":">> \o d.message

\* Index of the first element of s satisfying key k, 0 when none.
RECURSIVE FirstWithKey(_, _, _)
FirstWithKey(s, k, i) ==
  IF i > Len(s) THEN 0
  ELSE IF DiagKey(s[i]) = k THEN i
  ELSE FirstWithKey(s, k, i + 1)

\* AnalysisBridge.deduplicateDiagnostics: a Map keyed by DiagKey in
\* insertion order; a later tsgo item replaces an earlier non-tsgo one in place.
RECURSIVE DedupFrom(_, _, _)
DedupFrom(diagnostics, i, seen) ==
  IF i > Len(diagnostics) THEN seen
  ELSE
    LET diag == diagnostics[i]
        j == FirstWithKey(seen, DiagKey(diag), 1)
    IN IF j = 0 THEN DedupFrom(diagnostics, i + 1, Append(seen, diag))
       ELSE IF diag.source = "tsgo" /\ seen[j].source # "tsgo"
         THEN DedupFrom(diagnostics, i + 1, [seen EXCEPT ![j] = diag])
       ELSE DedupFrom(diagnostics, i + 1, seen)

deduplicateDiagnostics(diagnostics) == DedupFrom(diagnostics, 1, <<>>)

\* ------------------------------------------------------------- FileCache
\* A FileAnalysisResult; `valid` is FALSE for the placeholder of "no value".
Result(u, ds, c, h) ==
  [valid |-> TRUE, uri |-> u, diagnostics |-> ds, cached |-> c, contentHash |-> h]
NoResult ==
  [valid |-> FALSE, uri |-> "", diagnostics |-> <<>>, cached |-> FALSE, contentHash |-> ""]

\* FileCache.estimateSize: byte length of the JSON text of the value.
estimateSize(data) == 2 + 2 * Len(data.diagnostics)

\* new FileCache(config): the limits are fixed at construction.
NewCache(maxEntries, maxSizeBytes, ttlMs) ==
  [entries |-> <<>>, totalSizeBytes |-> 0, hits |-> 0, misses |-> 0, evictions |-> 0,
   maxEntries |-> maxEntries, maxSizeBytes |-> maxSizeBytes, ttlMs |-> ttlMs]

RECURSIVE EntryIndex(_, _, _)
EntryIndex(entries, uri, i) ==
  IF i > Len(entries) THEN 0
  ELSE IF entries[i].uri = uri THEN i
  ELSE EntryIndex(entries, uri, i + 1)

RemoveAt(s, i) == SubSeq(s, 1, i - 1) \o SubSeq(s, i + 1, Len(s))

\* FileCache.deleteEntry
deleteEntry(c, uri) ==
  LET i == EntryIndex(c.entries, uri, 1)
  IN IF i = 0 THEN c
     ELSE [c EXCEPT !.totalSizeBytes = @ - c.entries[i].sizeBytes,
                    !.entries = RemoveAt(@, i)]

\* FileCache.get with the expiry test `>=` for `>`.
CacheGetExpiresEarly(c, uri, contentHash, now) ==
  LET i == EntryIndex(c.entries, uri, 1)
  IN IF i = 0
       THEN [cache |-> [c EXCEPT !.misses = @ + 1], value |-> NoResult]
     ELSE IF c.entries[i].contentHash # contentHash
       THEN [cache |-> deleteEntry([c EXCEPT !.misses = @ + 1], uri), value |-> NoResult]
     ELSE IF now - c.entries[i].createdAt >= c.ttlMs
       THEN [cache |-> deleteEntry([c EXCEPT !.misses = @ + 1], uri), value |-> NoResult]
     ELSE [cache |-> [c EXCEPT !.hits = @ + 1, !.entries[i].lastAccessedAt = now],
           value |-> c.entries[i].data]

\* FileCache.get without the content hash test.
CacheGetAnyHash(c, uri, contentHash, now) ==
  LET i == EntryIndex(c.entries, uri, 1)
  IN IF i = 0
       THEN [cache |-> [c EXCEPT !.misses = @ + 1], value |-> NoResult]
     ELSE IF now - c.entries[i].createdAt > c.ttlMs
       THEN [cache |-> deleteEntry([c EXCEPT !.misses = @ + 1], uri), value |-> NoResult]
     ELSE [cache |-> [c EXCEPT !.hits = @ + 1, !.entries[i].lastAccessedAt = now],
           value |-> c.entries[i].data]

\* FileCache.get that counts a miss and returns nothing.
CacheGetMisses(c, uri, contentHash, now) ==
  [cache |-> [c EXCEPT !.misses = @ + 1], value |-> NoResult]

\* FileCache.get that leaves an entry of another content hash in place.
CacheGetKeepsStale(c, uri, contentHash, now) ==
  LET i == EntryIndex(c.entries, uri, 1)
  IN IF i = 0
       THEN [cache |-> [c EXCEPT !.misses = @ + 1], value |-> NoResult]
     ELSE IF c.entries[i].contentHash # contentHash
       THEN [cache |-> [c EXCEPT !.misses = @ + 1], value |-> NoResult]
     ELSE IF now - c.entries[i].createdAt > c.ttlMs
       THEN [cache |-> deleteEntry([c EXCEPT !.misses = @ + 1], uri), value |-> NoResult]
     ELSE [cache |-> [c EXCEPT !.hits = @ + 1, !.entries[i].lastAccessedAt = now],
           value |-> c.entries[i].data]

\* FileCache.get: the new cache state and the value returned.
CacheGet(c, uri, contentHash, now) ==
  LET i == EntryIndex(c.entries, uri, 1)
  IN IF i = 0
       THEN [cache |-> [c EXCEPT !.misses = @ + 1], value |-> NoResult]
     ELSE IF c.entries[i].contentHash # contentHash
       THEN [cache |-> deleteEntry([c EXCEPT !.misses = @ + 1], uri), value |-> NoResult]
     ELSE IF now - c.entries[i].createdAt > c.ttlMs
       THEN [cache |-> deleteEntry([c EXCEPT !.misses = @ + 1], uri), value |-> NoResult]
     ELSE [cache |-> [c EXCEPT !.hits = @ + 1, !.entries[i].lastAccessedAt = now],
           value |-> c.entries[i].data]

\* The index evictLRU selects: the first entry, in Map insertion order, with
\* the strictly smallest lastAccessedAt.
RECURSIVE OldestFrom(_, _, _)
OldestFrom(entries, i, best) ==
  IF i > Len(entries) THEN best
  ELSE IF best = 0 \/ entries[i].lastAccessedAt < entries[best].lastAccessedAt
    THEN OldestFrom(entries, i + 1, i)
  ELSE OldestFrom(entries, i + 1, best)

\* FileCache.evictLRU that removes the first entry in insertion order.
evictLRUFirst(c) ==
  IF c.entries = <<>> THEN c
  ELSE [deleteEntry(c, c.entries[1].uri) EXCEPT !.evictions = @ + 1]

\* FileCache.evictLRU
evictLRU(c) ==
  LET i == OldestFrom(c.entries, 1, 0)
  IN IF i = 0 THEN c
     ELSE [deleteEntry(c, c.entries[i].uri) EXCEPT !.evictions = @ + 1]

\* FileCache.evictIfNeeded without the loop over the total size.
RECURSIVE evictIfNeededCountOnly(_)
evictIfNeededCountOnly(c) ==
  IF Len(c.entries) > c.maxEntries THEN evictIfNeededCountOnly(evictLRU(c))
  ELSE c

\* FileCache.evictIfNeeded: by entry count first, then by total size.
RECURSIVE evictIfNeeded(_)
evictIfNeeded(c) ==
  IF Len(c.entries) > c.maxEntries THEN evictIfNeeded(evictLRU(c))
  ELSE IF c.totalSizeBytes > c.maxSizeBytes /\ Len(c.entries) > 0
    THEN evictIfNeeded(evictLRU(c))
  ELSE c

\* FileCache.set that stores nothing for a result without diagnostics.
CacheSetSkipsEmpty(c, uri, contentHash, data, now) ==
  LET c1 == deleteEntry(c, uri)
      entry == [uri |-> uri, data |-> data, contentHash |-> contentHash,
                createdAt |-> now, lastAccessedAt |-> now,
                sizeBytes |-> estimateSize(data)]
  IN IF data.diagnostics = <<>> THEN c
     ELSE evictIfNeeded([c1 EXCEPT !.entries = Append(@, entry),
                                   !.totalSizeBytes = @ + entry.sizeBytes])

\* FileCache.set
CacheSet(c, uri, contentHash, data, now) ==
  LET c1 == deleteEntry(c, uri)
      entry == [uri |-> uri, data |-> data, contentHash |-> contentHash,
                createdAt |-> now, lastAccessedAt |-> now,
                sizeBytes |-> estimateSize(data)]
  IN evictIfNeeded([c1 EXCEPT !.entries = Append(@, entry),
                              !.totalSizeBytes = @ + entry.sizeBytes])

\* FileCache.invalidate
CacheInvalidate(c, uri) == deleteEntry(c, uri)

\* FileCache.clear that leaves the hit, miss and eviction counters alone.
CacheClearKeepsCounters(c) ==
  [c EXCEPT !.entries = <<>>, !.totalSizeBytes = 0]

\* FileCache.clear
CacheClear(c) ==
  [c EXCEPT !.entries = <<>>, !.totalSizeBytes = 0, !.evictions = 0,
            !.hits = 0, !.misses = 0]

\* FileCache.getStats; a rate is the pair <<numerator, denominator>> of the
\* division the code makes, <<0, 1>> where it returns the literal 0.
getStats(c) ==
  LET total == c.hits + c.misses
  IN [totalEntries |-> Len(c.entries),
      totalSizeBytes |-> c.totalSizeBytes,
      hitRate |-> IF total > 0 THEN <<c.hits, total>> ELSE <<0, 1>>,
      missRate |-> IF total > 0 THEN <<c.misses, total>> ELSE <<0, 1>>,
      evictionCount |-> c.evictions]


\* ------------------------------------------------------- analyzer outputs
\* A raw diagnostic as an analyzer prints it; file <<>> stands for "absent".
Raw(f, l, c, m, k) == [file |-> f, line |-> l, column |-> c, message |-> m, code |-> k]

\* TsgoIntegration.convertDiagnostics: file defaults to the uri, source is tsgo.
convertDiagnostics(uri, raw) ==
  [k \in 1..Len(raw) |->
     Diag(IF raw[k].file = <<>> THEN <<uri>> ELSE raw[k].file, raw[k].line,
          raw[k].column, raw[k].message, "tsgo", raw[k].code)]

\* OxcIntegration.convertDiagnostic: file defaults to the uri, source is oxc.
convertDiagnostic(uri, raw) ==
  Diag(IF raw.file = <<>> THEN <<uri>> ELSE raw.file, raw.line, raw.column,
       raw.message, "oxc", raw.code)

\* OxcIntegration.parseOutput: empty text gives nothing, a JSON array is
\* converted item by item, other text goes to the line parser (which finds
\* no diagnostic line in it).
parseOutput(uri, stdout) ==
  IF stdout.text = "empty" THEN <<>>
  ELSE IF stdout.text = "json"
    THEN [k \in 1..Len(stdout.items) |-> convertDiagnostic(uri, stdout.items[k])]
  ELSE <<>>

\* What a tsgo worker can answer an analyze request with, and what an oxc
\* run can print.
TsgoOutputs == {<<Raw(<<>>, 1, 1, <<"m">>, "TS1")>>}
EmptyStdout == [text |-> "empty", items |-> <<>>]
OxcStdouts ==
  {EmptyStdout,
   [text |-> "json",
    items |-> <<Raw(<<>>, 1, 1, <<"m">>, "r1"), Raw(<<>>, 1, 1, <<"m">>, "r2"),
                Raw(<<>>, 2, 1, <<"m">>, "r1")>>]}

\* ------------------------------------------------------------------- state
VARIABLES
  now,                \* Date.now()
  config,             \* enabled flags of TsgoTurboConfig (tsgo, oxc, cache) and the
                      \* constructor arguments maxConcurrentAnalyses, poolSize,
                      \* maxConcurrency
  started,            \* AnalysisBridge.started
  shutdownCalled,     \* history: AnalysisBridge.shutdown() has been called
  req,                \* the QueueItems whose promise is pending, by slot
  queue,              \* AnalysisBridge.queue (slots of QueueItems)
  arrivals,           \* history: the undispatched pending items in call order
  inFlight,           \* history: the dispatched pending items in dispatch order
  activeAnalyses,     \* AnalysisBridge.activeAnalyses
  filesAnalyzedCount, \* AnalysisBridge.filesAnalyzedCount
  completed,          \* history: per uri, what the last finished analysis returned,
                      \* and whether no invalidate, clear or new analysis of the
                      \* uri has come since
  cache,              \* AnalysisBridge.cache (a FileCache)
  tsgo,               \* TsgoIntegration.started / shuttingDown / shutdown progress
  pool,               \* TsgoIntegration.pool (pids, in array order)
  procs,              \* the tsgo child processes, by pid
  pendingRequests,    \* TsgoIntegration.pendingRequests (slots)
  tsgoReq,            \* the dispatch() promise of each tsgo request
  oxc,                \* OxcIntegration.started
  activeLints,        \* OxcIntegration.activeLints
  pendingQueue,       \* OxcIntegration.pendingQueue (slots)
  oxcReq,             \* the lint() promise and child process of each lint
  typeCache,          \* TypeCache.dependsOn and dependedOnBy: Maps from a uri to
                      \* a Set of uris
  guard,              \* TypeExpansionGuard.maxTypeDepth and truncationCount
  tracer,             \* PerfTracer: activeSpans, completedSpans, rootHistory; history: parents of the ids issued, slow-span callbacks
  logger,             \* the StructuredLogger and its ring buffer
  out                 \* the turn just taken: the call made and the promises settled

vars == <<now, config, started, shutdownCalled, req, queue, arrivals, inFlight,
          activeAnalyses, filesAnalyzedCount, completed, cache, tsgo, pool,
          procs, pendingRequests, tsgoReq, oxc, activeLints,
          pendingQueue, oxcReq, typeCache, guard,
          tracer,
          logger,
          out>>

\* What a turn leaves in `out`: its name, the arguments of an analyzeFile
\* call, and one event per analyzeFile promise it settled, in order.
NoOut ==
  [op |-> "", uri |-> "", content |-> "", force |-> FALSE, priority |-> 0,
   events |-> <<>>]

\* The current state as one record, so that nested synchronous calls
\* (processQueue -> executeAnalysis -> dispatch -> sendToProcess) compose.
World ==
  [now |-> now, config |-> config, started |-> started,
   shutdownCalled |-> shutdownCalled, req |-> req,
   queue |-> queue, arrivals |-> arrivals, inFlight |-> inFlight,
   activeAnalyses |-> activeAnalyses,
   filesAnalyzedCount |-> filesAnalyzedCount, completed |-> completed,
   cache |-> cache, tsgo |-> tsgo, pool |-> pool, procs |-> procs,
   pendingRequests |-> pendingRequests,
   tsgoReq |-> tsgoReq, oxc |-> oxc, activeLints |-> activeLints,
   pendingQueue |-> pendingQueue, oxcReq |-> oxcReq, typeCache |-> typeCache,
   guard |-> guard, tracer |-> tracer,
   logger |-> logger,
   out |-> NoOut]

\* The state at the start of the turn named op.
Turn(op) == [World EXCEPT !.out.op = op]

\* The turn ends in state S (evaluated once, as W).
Becomes(S) ==
  \E W \in {S} :
    /\ now' = W.now
    /\ config' = W.config
    /\ started' = W.started
    /\ shutdownCalled' = W.shutdownCalled
    /\ req' = W.req
    /\ queue' = W.queue
    /\ arrivals' = W.arrivals
    /\ inFlight' = W.inFlight
    /\ activeAnalyses' = W.activeAnalyses
    /\ filesAnalyzedCount' = W.filesAnalyzedCount
    /\ completed' = W.completed
    /\ cache' = W.cache
    /\ tsgo' = W.tsgo
    /\ pool' = W.pool
    /\ procs' = W.procs
    /\ pendingRequests' = W.pendingRequests
    /\ tsgoReq' = W.tsgoReq
    /\ oxc' = W.oxc
    /\ activeLints' = W.activeLints
    /\ pendingQueue' = W.pendingQueue
    /\ oxcReq' = W.oxcReq
    /\ typeCache' = W.typeCache
    /\ guard' = W.guard
    /\ tracer' = W.tracer
    /\ logger' = W.logger
    /\ out' = W.out

\* Slots for tsgo child processes; the slot of a process whose exit has been
\* handled is free again.
Pids == 1..MaxProcs

\* A QueueItem (its enqueuedAt is written and never read).  status: "free" (no item in the slot) | "queued" | "active"
\* (shifted off the queue, executeAnalysis running).  afterShutdown is
\* history: shutdown() had been called when the item was created.
NoReq ==
  [uri |-> "", content |-> "", force |-> FALSE, priority |-> Open,
   status |-> "free", afterShutdown |-> FALSE]

\* A TsgoProcess together with its child process.
\*   state: "unused" | "alive" | "dead" (exited, 'exit' not yet emitted)
\*   listeners: requests whose onData is attached to stdout, in attach order
\*   stdin: messages written to the child and not yet answered
\*   killWait: the promise of killProcess is pending (force-kill timer armed)
\*   termTimer: the SIGTERM timer of killProcess is armed
\*   flowing: a 'data' listener has been attached to stdout at some time; until
\*     then the stream is paused and what the child prints stays unread
\*   unread: lines the child has printed that no 'data' event has carried yet
NoProc ==
  [state |-> "unused", busy |-> FALSE, listeners |-> <<>>, stdin |-> <<>>,
   killWait |-> FALSE, termTimer |-> FALSE, flowing |-> FALSE, unread |-> <<>>]

\* st: "none" | "notRunning" | "queued" | "sent" | "resolved" | "rejected"
NoResponse == [type |-> "none", diagnostics |-> <<>>, for |-> 0]
NoTsgoReq == [st |-> "none", timer |-> FALSE, response |-> NoResponse]

\* st: "none" | "notRunning" | "queued" | "running" | "fulfilled" | "rejected"
\* timer: the run timer of runOxcWithStdin is armed; qtimer: the queue-wait
\* timer of lint() is armed
\* child: "none" | "running" | "killed" | "closed"
\* why (history): how executeLint ended, "parsed" | "exit" | "timeout"
NoOxcReq ==
  [st |-> "none", timer |-> FALSE, qtimer |-> FALSE, child |-> "none",
   diagnostics |-> <<>>, why |-> ""]

IsWorld(S) ==
  /\ now = S.now
  /\ config = S.config
  /\ started = S.started
  /\ shutdownCalled = S.shutdownCalled
  /\ req = S.req
  /\ queue = S.queue
  /\ arrivals = S.arrivals
  /\ inFlight = S.inFlight
  /\ activeAnalyses = S.activeAnalyses
  /\ filesAnalyzedCount = S.filesAnalyzedCount
  /\ completed = S.completed
  /\ cache = S.cache
  /\ tsgo = S.tsgo
  /\ pool = S.pool
  /\ procs = S.procs
  /\ pendingRequests = S.pendingRequests
  /\ tsgoReq = S.tsgoReq
  /\ oxc = S.oxc
  /\ activeLints = S.activeLints
  /\ pendingQueue = S.pendingQueue
  /\ oxcReq = S.oxcReq
  /\ typeCache = S.typeCache
  /\ guard = S.guard
  /\ tracer = S.tracer
  /\ logger = S.logger
  /\ out = S.out

\* The state after `new AnalysisBridge(config, logger, perfTracer, n)`.
ConstructedWorld(cfg, cacheLimits) ==
  [now |-> 0, config |-> cfg, started |-> FALSE, shutdownCalled |-> FALSE,
   req |-> [i \in Ids |-> NoReq], queue |-> <<>>, arrivals |-> <<>>,
   inFlight |-> <<>>,
   activeAnalyses |-> 0, filesAnalyzedCount |-> 0,
   completed |-> [u \in Uris |-> [result |-> NoResult, fresh |-> FALSE]],
   cache |-> NewCache(cacheLimits.maxEntries, cacheLimits.maxSizeBytes,
                      cacheLimits.ttlMs),
   tsgo |-> [started |-> FALSE, shuttingDown |-> FALSE, killing |-> FALSE],
   pool |-> <<>>, procs |-> [p \in Pids |-> NoProc], pendingRequests |-> <<>>,
   tsgoReq |-> [i \in Ids |-> NoTsgoReq],
   oxc |-> [started |-> FALSE, starting |-> FALSE, timers |-> <<>>],
   activeLints |-> 0,
   pendingQueue |-> <<>>, oxcReq |-> [i \in Ids |-> NoOxcReq],
   typeCache |-> [dependsOn |-> <<>>, dependedOnBy |-> <<>>],
   guard |-> [maxTypeDepth |-> 50, truncationCount |-> 0],
   tracer |-> [activeSpans |-> <<>>, completedSpans |-> <<>>, rootHistory |-> <<>>,
               slowThresholdMs |-> 1000, maxHistory |-> 1000,
               parents |-> <<>>, slow |-> <<>>],
   logger |-> [ringBuffer |-> [buffer |-> <<>>, head |-> 0, count |-> 0,
                               capacity |-> 2000],
               batch |-> <<>>, flushTimer |-> 0, timers |-> {},
               flushed |-> <<>>, appended |-> 0],
   out |-> NoOut]

\* ------------------------------------------------------ TsgoIntegration
\* Lines on a worker's stdin other than analyze requests (which are written
\* as their slot): a health check, a shutdown message.  Stale stands for the
\* request, or the onData listener, of a dispatch() promise already settled.
FORCE_KILL_TIMEOUT_MS == 5000
SIGTERM_GRACE_MS == 1000
HealthMsg == 0
ShutdownMsg == -1
Stale == -2

\* this.pool.find((p) => !p.busy): the pid of the first idle worker, 0 if none.
RECURSIVE FindIdle(_, _)
FindIdle(S, k) ==
  IF k > Len(S.pool) THEN 0
  ELSE IF ~S.procs[S.pool[k]].busy THEN S.pool[k]
  ELSE FindIdle(S, k + 1)

\* child.stdin.write(line): the child receives the line while it is running.
WriteStdin(S, p, msg) ==
  IF S.procs[p].state = "alive"
    THEN [S EXCEPT !.procs[p].stdin = Append(@, msg)]
    ELSE S

\* TsgoIntegration.sendToProcess (stdio is always piped, so stdin and stdout exist)
sendToProcess(S, p, i) ==
  WriteStdin([S EXCEPT !.procs[p].busy = TRUE,
                       !.procs[p].listeners = Append(@, i),
                       !.procs[p].flowing = TRUE,
                       !.tsgoReq[i].st = "sent"], p, i)

\* TsgoIntegration.dispatch: arm the timeout, then send or queue.
dispatch(S, i) ==
  LET S1 == [S EXCEPT !.tsgoReq[i].timer = TRUE]
      idle == FindIdle(S1, 1)
  IN IF idle # 0 THEN sendToProcess(S1, idle, i)
     ELSE [S1 EXCEPT !.pendingRequests = Append(@, i), !.tsgoReq[i].st = "queued"]

\* dispatchPending taking the newest queued request instead of the oldest.
RECURSIVE dispatchPendingNewest(_)
dispatchPendingNewest(S) ==
  IF S.pendingRequests = <<>> THEN S
  ELSE LET idle == FindIdle(S, 1)
           n == Len(S.pendingRequests)
       IN IF idle = 0 THEN S
          ELSE dispatchPendingNewest(
                 sendToProcess([S EXCEPT !.pendingRequests = SubSeq(@, 1, n - 1)],
                               idle, S.pendingRequests[n]))

\* TsgoIntegration.dispatchPending
RECURSIVE dispatchPending(_)
dispatchPending(S) ==
  IF S.pendingRequests = <<>> THEN S
  ELSE LET idle == FindIdle(S, 1)
       IN IF idle = 0 THEN S
          ELSE dispatchPending(
                 sendToProcess([S EXCEPT !.pendingRequests = Tail(@)],
                               idle, Head(S.pendingRequests)))

\* TsgoIntegration.analyze up to its first await.
TsgoAnalyze(S, i) ==
  IF ~S.tsgo.started \/ S.tsgo.shuttingDown
    THEN [S EXCEPT !.tsgoReq[i].st = "notRunning"]
    ELSE dispatch(S, i)

\* The slot the next spawned child takes, 0 when none is free.
FreePid(S) ==
  IF \E p \in Pids : S.procs[p].state = "unused"
    THEN CHOOSE p \in Pids :
           /\ S.procs[p].state = "unused"
           /\ \A q \in Pids : S.procs[q].state = "unused" => p <= q
    ELSE 0

\* TsgoIntegration.spawnProcess
spawnProcess(S) ==
  [S EXCEPT !.procs[FreePid(S)] = [NoProc EXCEPT !.state = "alive"]]

\* TsgoIntegration.start: spawn poolSize workers.
RECURSIVE SpawnPool(_, _)
SpawnPool(S, n) ==
  IF n = 0 THEN S
  ELSE LET S1 == spawnProcess(S)
       IN SpawnPool([S1 EXCEPT !.pool = Append(@, FreePid(S))], n - 1)

TsgoStart(S) ==
  IF S.tsgo.started THEN S
  ELSE [SpawnPool(S, S.config.poolSize) EXCEPT !.tsgo.started = TRUE]

\* s without its first element equal to x.
RECURSIVE RemoveFirst(_, _)
RemoveFirst(s, x) ==
  IF s = <<>> THEN <<>>
  ELSE IF Head(s) = x THEN Tail(s)
  ELSE <<Head(s)>> \o RemoveFirst(Tail(s), x)

\* The onData listener of request i on worker p parsing one complete line;
\* resolving a promise that the timeout has rejected does nothing.
OnData(S, p, i, response) ==
  LET S1 == [S EXCEPT
        !.procs[p].listeners = RemoveFirst(@, i),
        !.procs[p].busy = FALSE]
      S2 == IF i = Stale THEN S1
            ELSE [S1 EXCEPT
                    !.tsgoReq[i].timer = FALSE,
                    !.tsgoReq[i].st = IF @ = "sent" THEN "resolved" ELSE @,
                    !.tsgoReq[i].response =
                        IF S.tsgoReq[i].st = "sent" THEN response ELSE @]
  IN dispatchPending(S2)

\* stdout 'data' with one complete line: every listener attached at emit time
\* is called, in attach order.
RECURSIVE EmitData(_, _, _, _)
EmitData(S, p, ls, response) ==
  IF ls = <<>> THEN S
  ELSE EmitData(OnData(S, p, Head(ls), response), p, Tail(ls), response)

\* The child prints one line: a 'data' event when the stream is flowing and
\* nothing is unread, otherwise the line waits behind the unread ones.
Deliver(S, p, line) ==
  IF ~S.procs[p].flowing \/ S.procs[p].unread # <<>>
    THEN [S EXCEPT !.procs[p].unread = Append(@, line)]
    ELSE EmitData(S, p, S.procs[p].listeners, line)

\* The first 'data' event after the stream started flowing carries every
\* unread line in one chunk: a listener takes the first line and returns.
Flush(S, p) ==
  EmitData([S EXCEPT !.procs[p].unread = <<>>], p, S.procs[p].listeners,
           Head(S.procs[p].unread))

\* TsgoIntegration.performHealthChecks: a ping to every worker that is not busy.
RECURSIVE performHealthChecks(_, _)
performHealthChecks(S, ps) ==
  IF ps = <<>> THEN S
  ELSE performHealthChecks(
         IF S.procs[Head(ps)].busy THEN S ELSE WriteStdin(S, Head(ps), HealthMsg),
         Tail(ps))

RemoveId(q, i) == SelectSeq(q, LAMBDA x : x # i)

\* x comes before y in s.
Earlier(s, x, y) ==
  \E a, b \in 1..Len(s) : a < b /\ s[a] = x /\ s[b] = y

Restale(s, i) == [k \in 1..Len(s) |-> IF s[k] = i THEN Stale ELSE s[k]]

\* The setTimeout callback of dispatch() clearing its timer without
\* rejecting the promise.
TimeoutNeverRejects(S, i) == [S EXCEPT !.tsgoReq[i].timer = FALSE]

\* The setTimeout callback of dispatch(): the request leaves pendingRequests
\* and its promise is rejected.  Its listener stays attached, its worker
\* stays busy and the line stays on the worker's stdin.
TimeoutFired(S, i) ==
  [S EXCEPT !.pendingRequests = RemoveId(@, i),
            !.tsgoReq[i].timer = FALSE,
            !.tsgoReq[i].st = IF @ \in {"queued", "sent"} THEN "rejected" ELSE @,
            !.procs = [p \in Pids |->
                         [S.procs[p] EXCEPT !.listeners = Restale(@, i),
                                            !.stdin = Restale(@, i)]]]

\* The exit handler without its respawn branch.
ExitHandlerNoRespawn(S, p) ==
  [S EXCEPT !.procs[p] = NoProc, !.pool = RemoveId(@, p)]

\* The child.on('exit') handler installed by spawnProcess, followed by the
\* once('exit') handler of killProcess when one is installed.  The exited
\* child's record is dropped: its stdout listeners were removed if it was
\* busy (an idle worker has none), the force-kill timer is cleared, and the
\* SIGTERM timer, which the code leaves armed, does nothing to an exited child.
ExitHandler(S, p) ==
  LET S1 == [S EXCEPT !.procs[p] = NoProc, !.pool = RemoveId(@, p)]
  IN IF ~S1.tsgo.shuttingDown /\ Len(S1.pool) < S1.config.poolSize
       THEN dispatchPending([spawnProcess(S1) EXCEPT !.pool = Append(@, FreePid(S1))])
       ELSE S1

\* TsgoIntegration.checkMemoryUsage from the k-th element of the pool on, its
\* for-of loop reading the array it splices and pushes to.  gone: the
\* workers for which process.kill(pid, 0) throws.  A worker removed here
\* keeps its exit handler.
RECURSIVE checkMemoryUsage(_, _, _)
checkMemoryUsage(S, k, gone) ==
  IF k > Len(S.pool) THEN S
  ELSE IF S.procs[S.pool[k]].busy \/ S.pool[k] \notin gone
    THEN checkMemoryUsage(S, k + 1, gone)
  ELSE LET S1 == [S EXCEPT !.pool = RemoveAt(@, k)]
       IN checkMemoryUsage(
            IF ~S1.tsgo.shuttingDown /\ Len(S1.pool) < S1.config.poolSize
              THEN [spawnProcess(S1) EXCEPT !.pool = Append(@, FreePid(S1))]
              ELSE S1,
            k + 1, gone)

\* TsgoIntegration.killProcess up to the return of its promise.
killProcess(S, p) ==
  WriteStdin([S EXCEPT !.procs[p].killWait = TRUE, !.procs[p].termTimer = TRUE],
             p, ShutdownMsg)

RECURSIVE KillAll(_, _)
KillAll(S, ps) ==
  IF ps = <<>> THEN S ELSE KillAll(killProcess(S, Head(ps)), Tail(ps))

\* The loop over pendingRequests of shutdown() left out.
RejectPendingNever(S, q) == S

\* shutdown(): clearTimeout and reject, for every pending request.
RECURSIVE RejectPending(_, _)
RejectPending(S, q) ==
  IF q = <<>> THEN S
  ELSE RejectPending([S EXCEPT !.tsgoReq[Head(q)].timer = FALSE,
                               !.tsgoReq[Head(q)].st = "rejected"], Tail(q))

\* TsgoIntegration.shutdown up to `await Promise.allSettled(killPromises)`.
TsgoShutdown(S) ==
  IF S.tsgo.shuttingDown THEN S
  ELSE LET S1 == RejectPending([S EXCEPT !.tsgo.shuttingDown = TRUE,
                                         !.tsgo.killing = TRUE],
                               S.pendingRequests)
       IN KillAll([S1 EXCEPT !.pendingRequests = <<>>], S1.pool)

\* shutdown() going on without waiting for its kill promises.
KillsSettledAtOnce(S) == TRUE

\* All kill promises of shutdown() have resolved.
KillsSettled(S) == \A p \in Pids : ~S.procs[p].killWait

\* ------------------------------------------------------- OxcIntegration
\* OxcIntegration.executeLint up to `await this.runOxcWithStdin`.
executeLint(S, i) ==
  [S EXCEPT !.activeLints = @ + 1,
            !.oxcReq[i].st = "running",
            !.oxcReq[i].child = "running",
            !.oxcReq[i].timer = TRUE,
            !.oxc.timers = Append(@, i)]

\* lint() without its queue branch.
OxcLintUnbounded(S, i) ==
  IF ~S.oxc.started THEN [S EXCEPT !.oxcReq[i].st = "notRunning"]
  ELSE executeLint(S, i)

\* OxcIntegration.lint
OxcLint(S, i) ==
  IF ~S.oxc.started THEN [S EXCEPT !.oxcReq[i].st = "notRunning"]
  ELSE IF S.activeLints >= S.config.maxConcurrency
    THEN [S EXCEPT !.oxcReq[i].st = "queued", !.oxcReq[i].qtimer = TRUE,
                   !.oxc.timers = Append(@, i),
                   !.pendingQueue = Append(@, i)]
  ELSE executeLint(S, i)

\* dispatchPending without its clearTimeout.
RECURSIVE OxcDispatchPendingKeepsTimer(_)
OxcDispatchPendingKeepsTimer(S) ==
  IF S.pendingQueue # <<>> /\ S.activeLints < S.config.maxConcurrency
    THEN OxcDispatchPendingKeepsTimer(
           executeLint([S EXCEPT !.pendingQueue = Tail(@)], Head(S.pendingQueue)))
    ELSE S

\* OxcIntegration.dispatchPending
RECURSIVE OxcDispatchPending(_)
OxcDispatchPending(S) ==
  IF S.pendingQueue # <<>> /\ S.activeLints < S.config.maxConcurrency
    THEN OxcDispatchPending(
           executeLint([S EXCEPT !.pendingQueue = Tail(@),
                                 !.oxcReq[Head(S.pendingQueue)].qtimer = FALSE,
                                 !.oxc.timers = RemoveId(@, Head(S.pendingQueue))],
                       Head(S.pendingQueue)))
    ELSE S

\* The rest of executeLint once runOxcWithStdin has settled: the result (the
\* catch branch returns an empty list), then `finally`.
LintSettled(S, i, diagnostics, why) ==
  OxcDispatchPending([S EXCEPT !.oxcReq[i].st = "fulfilled",
                               !.oxcReq[i].diagnostics = diagnostics,
                               !.oxcReq[i].why = why,
                               !.activeLints = @ - 1])

\* The close handler taking exit code 0 alone for success.
CloseHandlerZeroOnly(S, i, code, stdout) ==
  LET S1 == [S EXCEPT !.oxcReq[i].child = "closed", !.oxcReq[i].timer = FALSE,
                      !.oxc.timers = RemoveId(@, i)]
  IN IF S.oxcReq[i].st # "running" THEN S1
     ELSE IF code = 0
       THEN LintSettled(S1, i, parseOutput(S.req[i].uri, stdout), "parsed")
     ELSE LintSettled(S1, i, <<>>, "exit")

\* The child.on('close') handler of runOxcWithStdin; code -1 stands for null.
CloseHandler(S, i, code, stdout) ==
  LET S1 == [S EXCEPT !.oxcReq[i].child = "closed", !.oxcReq[i].timer = FALSE,
                      !.oxc.timers = RemoveId(@, i)]
  IN IF S.oxcReq[i].st # "running" THEN S1
     ELSE IF code # -1 /\ code <= 1
       THEN LintSettled(S1, i, parseOutput(S.req[i].uri, stdout), "parsed")
     ELSE IF stdout.text # "empty"
       THEN LintSettled(S1, i, parseOutput(S.req[i].uri, stdout), "parsed")
     ELSE LintSettled(S1, i, <<>>, "exit")

\* The setTimeout callback of runOxcWithStdin rejecting without child.kill.
RunTimeoutNoKill(S, i) ==
  LET S1 == [S EXCEPT !.oxcReq[i].timer = FALSE, !.oxc.timers = RemoveId(@, i)]
  IN IF S.oxcReq[i].st = "running" THEN LintSettled(S1, i, <<>>, "timeout") ELSE S1

\* The setTimeout callback of runOxcWithStdin killing without rejecting.
RunTimeoutOnlyKills(S, i) ==
  [S EXCEPT !.oxcReq[i].timer = FALSE,
            !.oxc.timers = RemoveId(@, i),
            !.oxcReq[i].child = IF @ = "running" THEN "killed" ELSE @]

\* The setTimeout callback of runOxcWithStdin: SIGKILL and reject.
RunTimeoutFired(S, i) ==
  LET S1 == [S EXCEPT !.oxcReq[i].timer = FALSE,
                      !.oxc.timers = RemoveId(@, i),
                      !.oxcReq[i].child = IF @ = "running" THEN "killed" ELSE @]
  IN IF S.oxcReq[i].st = "running" THEN LintSettled(S1, i, <<>>, "timeout") ELSE S1

\* The setTimeout callback of a queued lint().
QueueTimeoutFired(S, i) ==
  [S EXCEPT !.pendingQueue = RemoveId(@, i),
            !.oxcReq[i].qtimer = FALSE,
            !.oxc.timers = RemoveFirst(@, i),
            !.oxcReq[i].st = IF @ = "queued" THEN "rejected" ELSE @]

RECURSIVE OxcRejectPending(_, _)
OxcRejectPending(S, q) ==
  IF q = <<>> THEN S
  ELSE OxcRejectPending([S EXCEPT !.oxcReq[Head(q)].qtimer = FALSE,
                                  !.oxc.timers = RemoveId(@, Head(q)),
                                  !.oxcReq[Head(q)].st = "rejected"], Tail(q))

\* OxcIntegration.shutdown (no await inside: it runs to its end at once).
OxcShutdown(S) ==
  LET S1 == OxcRejectPending(S, S.pendingQueue)
  IN [S1 EXCEPT
        !.pendingQueue = <<>>,
        !.oxcReq = [i \in Ids |->
                      IF S1.oxcReq[i].child = "running"
                        THEN [S1.oxcReq[i] EXCEPT !.child = "killed"]
                        ELSE S1.oxcReq[i]],
        !.oxc.started = FALSE]


\* ------------------------------------------------------- AnalysisBridge
\* Array.prototype.sort((a, b) => a.priority - b.priority): a stable sort.
RECURSIVE InsertByPriority(_, _, _)
InsertByPriority(S, sorted, i) ==
  IF sorted = <<>> THEN <<i>>
  ELSE IF S.req[Head(sorted)].priority <= S.req[i].priority
    THEN <<Head(sorted)>> \o InsertByPriority(S, Tail(sorted), i)
  ELSE <<i>> \o sorted

RECURSIVE SortFrom(_, _, _)
SortFrom(S, q, sorted) ==
  IF q = <<>> THEN sorted
  ELSE SortFrom(S, Tail(q), InsertByPriority(S, sorted, Head(q)))

\* The queue left in call order.
SortByPriorityNot(S, q) == q

SortByPriority(S, q) == SortFrom(S, q, <<>>)

\* this.queue.findIndex((item) => item.uri === uri), 0 when none.
RECURSIVE FindUri(_, _, _)
FindUri(S, uri, k) ==
  IF k > Len(S.queue) THEN 0
  ELSE IF S.req[S.queue[k]].uri = uri THEN k
  ELSE FindUri(S, uri, k + 1)

\* What Promise.allSettled gave for one analyzer, and how it came about.
NoPart == [st |-> "absent", diagnostics |-> <<>>, why |-> ""]
NoParts == [tsgo |-> NoPart, oxc |-> NoPart]

\* The settling of an analyzeFile promise, as its caller sees it.  slot is 0
\* for a call answered from the cache; dispatched tells whether the item had
\* been shifted off the queue; parts are the settled analyzer promises the
\* result was merged from.
Event(kind, i, item, dispatched, error, result, parts) ==
  [kind |-> kind, slot |-> i, uri |-> item.uri, content |-> item.content,
   afterShutdown |-> item.afterShutdown, dispatched |-> dispatched,
   error |-> error, result |-> result, parts |-> parts]

Emit(S, e) == [S EXCEPT !.out.events = Append(@, e)]

\* AnalysisBridge.executeAnalysis up to `await Promise.allSettled(promises)`.
executeAnalysisStart(S, i) ==
  LET S1 == IF S.config.tsgo THEN TsgoAnalyze(S, i) ELSE S
  IN IF S1.config.oxc THEN OxcLint(S1, i) ELSE S1

\* processQueue without the test of activeAnalyses against the limit.
RECURSIVE processQueueUnbounded(_)
processQueueUnbounded(S) ==
  IF S.queue # <<>>
    THEN LET i == Head(S.queue)
         IN processQueueUnbounded(executeAnalysisStart(
              [S EXCEPT !.queue = Tail(@),
                        !.arrivals = RemoveId(@, i),
                        !.inFlight = Append(@, i),
                        !.activeAnalyses = @ + 1,
                        !.req[i].status = "active"],
              i))
    ELSE S

\* processQueue that keeps one slot free.
RECURSIVE processQueueSpare(_)
processQueueSpare(S) ==
  IF S.queue # <<>> /\ S.activeAnalyses + 1 < S.config.maxConcurrentAnalyses
    THEN LET i == Head(S.queue)
         IN processQueueSpare(executeAnalysisStart(
              [S EXCEPT !.queue = Tail(@),
                        !.arrivals = RemoveId(@, i),
                        !.inFlight = Append(@, i),
                        !.activeAnalyses = @ + 1,
                        !.req[i].status = "active"],
              i))
    ELSE S

\* AnalysisBridge.processQueue
RECURSIVE processQueue(_)
processQueue(S) ==
  IF S.queue # <<>> /\ S.activeAnalyses < S.config.maxConcurrentAnalyses
    THEN LET i == Head(S.queue)
         IN processQueue(executeAnalysisStart(
              [S EXCEPT !.queue = Tail(@),
                        !.arrivals = RemoveId(@, i),
                        !.inFlight = Append(@, i),
                        !.activeAnalyses = @ + 1,
                        !.req[i].status = "active"],
              i))
    ELSE S

\* item.reject(error) left out: the promise of the item stays pending.
RejectItemNever(S, i, error) == S

\* item.reject(error) of a queued item; rejecting a promise already settled
\* does nothing.
RejectItem(S, i, error) ==
  IF S.req[i].status # "queued" THEN S
  ELSE Emit([S EXCEPT !.req[i] = NoReq, !.arrivals = RemoveId(@, i)],
            Event("rejected", i, S.req[i], FALSE, error, NoResult, NoParts))

Superseded == "Superseded by newer request"
ShuttingDown == "AnalysisBridge shutting down"

\* The lowest free slot, 0 when none.
FreeSlot(S) ==
  IF \E i \in Ids : S.req[i].status = "free"
    THEN CHOOSE i \in Ids :
           /\ S.req[i].status = "free"
           /\ \A j \in Ids : S.req[j].status = "free" => i <= j
    ELSE 0

\* AnalysisBridge.analyzeFile; a new QueueItem takes the lowest free slot.
analyzeFile(S, uri, content, force, priority) ==
  LET contentHash == computeHash(content)
      lookup == S.config.cache /\ ~force
      got == CacheGet(S.cache, uri, contentHash, S.now)
      item == [NoReq EXCEPT !.uri = uri, !.content = content, !.force = force,
                            !.priority = priority,
                            !.afterShutdown = S.shutdownCalled]
      S0 == [S EXCEPT !.cache = IF lookup THEN got.cache ELSE @]
  IN IF lookup /\ got.value.valid
       THEN Emit(S0, Event("resolved", 0, item, FALSE, "",
                           [got.value EXCEPT !.cached = TRUE], NoParts))
     ELSE
       LET existingIdx == FindUri(S0, uri, 1)
           S1 == IF existingIdx > 0
                   THEN [RejectItem(S0, S0.queue[existingIdx], Superseded)
                           EXCEPT !.queue = RemoveAt(@, existingIdx)]
                   ELSE S0
           i == FreeSlot(S0)
           S2 == [S1 EXCEPT !.req[i] = [item EXCEPT !.status = "queued"],
                            !.queue = Append(@, i),
                            !.arrivals = Append(@, i),
                            !.completed[uri].fresh = FALSE]
       IN processQueue([S2 EXCEPT !.queue = SortByPriority(S2, @)])

\* The promise tsgo.analyze returned: absent (tool disabled), pending,
\* rejected (not running) or fulfilled with a diagnostics list.
TsgoPromise(S, i) ==
  LET r == S.tsgoReq[i]
  IN CASE r.st = "none" -> [st |-> "absent", diagnostics |-> <<>>]
       [] r.st = "notRunning" -> [st |-> "rejected", diagnostics |-> <<>>]
       [] r.st \in {"queued", "sent"} -> [st |-> "pending", diagnostics |-> <<>>]
       [] r.st = "rejected" -> [st |-> "fulfilled", diagnostics |-> <<>>]
       [] OTHER ->
            [st |-> "fulfilled",
             diagnostics |-> IF r.response.type = "error" THEN <<>>
                             ELSE convertDiagnostics(S.req[i].uri, r.response.diagnostics)]

\* The promise oxc.lint returned.
OxcPromise(S, i) ==
  LET r == S.oxcReq[i]
  IN CASE r.st = "none" -> [st |-> "absent", diagnostics |-> <<>>]
       [] r.st \in {"notRunning", "rejected"} -> [st |-> "rejected", diagnostics |-> <<>>]
       [] r.st \in {"queued", "running"} -> [st |-> "pending", diagnostics |-> <<>>]
       [] OTHER -> [st |-> "fulfilled", diagnostics |-> r.diagnostics]

\* How the tsgo promise of item i came to settle: the type of the worker's
\* answer, "timeout" (dispatch() rejected: its timer fired, or the pool shut
\* down while the request waited for a worker) or "notRunning".
TsgoWhy(S, i) ==
  CASE S.tsgoReq[i].st = "resolved" -> S.tsgoReq[i].response.type
    [] S.tsgoReq[i].st = "rejected" -> "timeout"
    [] OTHER -> S.tsgoReq[i].st

OxcWhy(S, i) ==
  IF S.oxcReq[i].st = "fulfilled" THEN S.oxcReq[i].why ELSE S.oxcReq[i].st

Parts(S, i) ==
  [tsgo |-> [st |-> TsgoPromise(S, i).st,
             diagnostics |-> TsgoPromise(S, i).diagnostics,
             why |-> TsgoWhy(S, i)],
   oxc |-> [st |-> OxcPromise(S, i).st,
            diagnostics |-> OxcPromise(S, i).diagnostics,
            why |-> OxcWhy(S, i)]]

\* Promise.allSettled(promises) of item i has resolved.
Settled(S, i) ==
  /\ S.req[i].status = "active"
  /\ TsgoPromise(S, i).st # "pending"
  /\ OxcPromise(S, i).st # "pending"

\* Promise.all for Promise.allSettled: one rejection and nothing is merged.
allDiagnosticsAllOrNothing(S, i) ==
  IF TsgoPromise(S, i).st = "rejected" \/ OxcPromise(S, i).st = "rejected"
    THEN <<>>
    ELSE TsgoPromise(S, i).diagnostics \o OxcPromise(S, i).diagnostics

\* The fulfilled values, in the order of `promises` (tsgo first).
allDiagnostics(S, i) ==
  (IF TsgoPromise(S, i).st = "fulfilled" THEN TsgoPromise(S, i).diagnostics ELSE <<>>)
    \o (IF OxcPromise(S, i).st = "fulfilled" THEN OxcPromise(S, i).diagnostics ELSE <<>>)

\* AnalysisBridge.executeAnalysis after the await, then the `finally` of
\* processQueue.  The item and its two sub-requests leave the model; a lint
\* child killed by its timeout and not yet closed leaves with them (its
\* close handler finds the promise settled and changes nothing modelled);
\* a line of the item's request that a worker has still to answer is now the
\* line of a settled request.
executeAnalysisFinish(S, i) ==
  LET contentHash == computeHash(S.req[i].content)
      deduplicated == deduplicateDiagnostics(allDiagnostics(S, i))
      mergedResult == Result(S.req[i].uri, deduplicated, FALSE, contentHash)
      S1 == [S EXCEPT
               !.cache = IF S.config.cache
                           THEN CacheSet(@, S.req[i].uri, contentHash, mergedResult, S.now)
                           ELSE @,
               !.filesAnalyzedCount = @ + 1,
               !.completed[S.req[i].uri] = [result |-> mergedResult, fresh |-> TRUE],
               !.req[i] = NoReq,
               !.inFlight = RemoveId(@, i),
               !.tsgoReq[i] = NoTsgoReq,
               !.oxcReq[i] = NoOxcReq,
               !.procs = [p \in Pids |->
                            [S.procs[p] EXCEPT !.listeners = Restale(@, i),
                                               !.stdin = Restale(@, i)]]]
      S2 == Emit(S1, Event("resolved", i, S.req[i], TRUE, "", mergedResult,
                           Parts(S, i)))
  IN processQueue([S2 EXCEPT !.activeAnalyses = @ - 1])

RECURSIVE RejectQueue(_, _)
RejectQueue(S, q) ==
  IF q = <<>> THEN S
  ELSE RejectQueue(RejectItem(S, Head(q), ShuttingDown), Tail(q))

\* AnalysisBridge.shutdown up to `await Promise.allSettled([...])`.
shutdown(S) ==
  LET S1 == RejectQueue(S, S.queue)
  IN OxcShutdown(TsgoShutdown([S1 EXCEPT !.queue = <<>>, !.shutdownCalled = TRUE]))

\* ---------------------------------------------------------------- actions
\* No promise continuation is runnable: the event loop takes its next turn.
Quiescent ==
  /\ \A i \in Ids : ~Settled(World, i)
  /\ ~(tsgo.killing /\ KillsSettled(World))

\* Analyses that have finished or are bound to be dispatched once the call
\* for uri has been made.
Committed(uri) ==
  filesAnalyzedCount
    + Cardinality({i \in Ids : req[i].status = "active"
                                 \/ (req[i].status = "queued" /\ req[i].uri # uri)})

\* A call of analyzeFile that the cache answers.
IsHit(uri, content, force) ==
  /\ config.cache /\ ~force
  /\ CacheGet(cache, uri, computeHash(content), now).value.valid

AnalyzeFile(uri, content, force, priority) ==
  /\ Quiescent
  /\ (config.cache /\ ~force) => cache.hits + cache.misses < MaxLookups
  /\ IsHit(uri, content, force) \/ Committed(uri) < MaxRequests
  /\ Becomes(analyzeFile([Turn("analyzeFile") EXCEPT
                            !.out.uri = uri, !.out.content = content,
                            !.out.force = force, !.out.priority = priority],
                         uri, content, force, priority))

\* analyzeFile calls with arguments from the given sets.
Calls(U, C, F, P) ==
  \E u \in U, c \in C, f \in F, pr \in P : AnalyzeFile(u, c, f, pr)

\* The continuation of executeAnalysis for item i.
ExecuteAnalysisFinish(i) ==
  /\ Settled(World, i)
  /\ Becomes(executeAnalysisFinish(Turn("executeAnalysis"), i))

\* AnalysisBridge.invalidateCache
InvalidateCache(uri) ==
  /\ Quiescent
  /\ EntryIndex(cache.entries, uri, 1) # 0
  /\ Becomes([Turn("invalidateCache") EXCEPT
                !.cache = CacheInvalidate(@, uri),
                !.completed[uri].fresh = FALSE])

\* AnalysisBridge.clearCache
ClearCache ==
  /\ Quiescent
  /\ cache.entries # <<>> \/ cache.hits + cache.misses + cache.evictions > 0
  /\ Becomes([Turn("clearCache") EXCEPT
                !.cache = CacheClear(@),
                !.completed = [u \in Uris |-> [completed[u] EXCEPT !.fresh = FALSE]]])

\* AnalysisBridge.start up to its await: tsgo.start() runs to its end,
\* oxc.start() waits for `oxlint --version`.
Start ==
  /\ Quiescent
  /\ ~started /\ ~shutdownCalled /\ ~tsgo.started /\ ~oxc.started /\ ~oxc.starting
  /\ LET S1 == IF config.tsgo THEN TsgoStart(Turn("start")) ELSE Turn("start")
     IN Becomes(IF config.oxc THEN [S1 EXCEPT !.oxc.starting = TRUE]
                ELSE [S1 EXCEPT !.started = TRUE])

\* The version check of oxc.start() has ended (either way): oxc is started,
\* and so is the bridge.
OxcStarted ==
  /\ Quiescent
  /\ oxc.starting
  /\ Becomes([Turn("oxcStarted") EXCEPT !.oxc.starting = FALSE,
                                        !.oxc.started = TRUE,
                                        !.started = TRUE])

\* AnalysisBridge.shutdown
Shutdown ==
  /\ Quiescent
  /\ ~shutdownCalled
  /\ Becomes(shutdown(Turn("shutdown")))

\* The continuation of TsgoIntegration.shutdown, and of the bridge's shutdown
\* that awaits it.
TsgoShutdownDone ==
  /\ tsgo.killing /\ KillsSettled(World)
  /\ \A i \in Ids : ~Settled(World, i)
  /\ Becomes([Turn("shutdownDone") EXCEPT
                !.pool = <<>>,
                !.tsgo = [started |-> FALSE, shuttingDown |-> FALSE,
                          killing |-> FALSE],
                !.started = FALSE])

\* A tsgo worker prints the answer to the oldest message on its stdin, a
\* request.
TsgoRespond(p, response) ==
  /\ Quiescent
  /\ procs[p].state = "alive"
  /\ procs[p].stdin # <<>>
  /\ Head(procs[p].stdin) \notin {ShutdownMsg, HealthMsg}
  /\ Becomes(Deliver([Turn("tsgoData") EXCEPT !.procs[p].stdin = Tail(@)], p,
                     [response EXCEPT !.for = Head(procs[p].stdin)]))

\* The health timer of start() fires (it is armed while the pool is started
\* and not shutting down).
HealthCheck ==
  /\ Quiescent
  /\ tsgo.started /\ ~tsgo.shuttingDown
  /\ \A p \in Pids :
       Len(SelectSeq(procs[p].stdin, LAMBDA m : m = HealthMsg))
         + Len(procs[p].unread) < MaxPings
  /\ Becomes(performHealthChecks(Turn("healthCheck"), pool))

\* A tsgo worker prints its answer to a health ping.
TsgoHealthReply(p) ==
  /\ Quiescent
  /\ procs[p].state = "alive"
  /\ procs[p].stdin # <<>>
  /\ Head(procs[p].stdin) = HealthMsg
  /\ Becomes(Deliver([Turn("tsgoData") EXCEPT !.procs[p].stdin = Tail(@)], p,
                     [type |-> "health", diagnostics |-> <<>>, for |-> HealthMsg]))

\* The first read of a worker's stdout after a listener was attached.
TsgoFlush(p) ==
  /\ Quiescent
  /\ procs[p].flowing /\ procs[p].unread # <<>>
  /\ Becomes(Flush(Turn("tsgoData"), p))

\* The timeout of tsgo request i fires.  Every request is given the same
\* delay, so the timers fire in the order dispatch() armed them, which is the
\* order the bridge dispatched the items.
TsgoTimeout(i) ==
  /\ Quiescent
  /\ tsgoReq[i].timer
  /\ \A j \in Ids : tsgoReq[j].timer => ~Earlier(inFlight, j, i)
  /\ Becomes(TimeoutFired(Turn("tsgoTimeout"), i))

\* A tsgo worker process exits and its 'exit' event is handled.
TsgoExit(p) ==
  /\ Quiescent
  /\ procs[p].state \in {"alive", "dead"}
  /\ Becomes(ExitHandler(Turn("tsgoExit"), p))

\* A tsgo worker process dies; its 'exit' event has not been emitted yet.
TsgoDie(p) ==
  /\ Quiescent
  /\ procs[p].state = "alive"
  /\ Becomes([Turn("tsgoDie") EXCEPT !.procs[p].state = "dead",
                                     !.procs[p].stdin = <<>>])

\* The memory timer of start() fires (it is armed while the pool is started
\* and not shutting down).  Whether process.kill(pid, 0) throws for a child
\* that has died and whose 'exit' event is still to come is left open: it
\* throws for any set of them.
MemoryCheck ==
  /\ Quiescent
  /\ tsgo.started /\ ~tsgo.shuttingDown
  /\ \E gone \in SUBSET {p \in Pids : procs[p].state = "dead"} :
       /\ Cardinality(gone) <= Cardinality({p \in Pids : procs[p].state = "unused"})
       /\ Becomes(checkMemoryUsage(Turn("memoryCheck"), 1, gone))

\* AnalysisBridge.start called again after shutdown() has completed, with
\* the checker alone enabled: tsgo.start() runs to its end.
Restart ==
  /\ Quiescent
  /\ shutdownCalled /\ ~started /\ ~tsgo.started /\ ~tsgo.killing
  /\ config.tsgo /\ ~config.oxc
  /\ Cardinality({p \in Pids : procs[p].state = "unused"}) >= config.poolSize
  /\ Becomes([TsgoStart(Turn("start")) EXCEPT !.started = TRUE])

\* The SIGTERM timer of killProcess fires.
TsgoSigterm(p) ==
  /\ Quiescent
  /\ procs[p].termTimer
  /\ Becomes([Turn("tsgoSigterm") EXCEPT !.procs[p].termTimer = FALSE])

\* The force-kill timer of killProcess fires: SIGKILL, and the promise
\* resolves.  It was armed in the same call as the SIGTERM timer, with a
\* longer delay, so it fires after it.
TsgoForceKill(p) ==
  /\ Quiescent
  /\ procs[p].killWait
  /\ SIGTERM_GRACE_MS < FORCE_KILL_TIMEOUT_MS => ~procs[p].termTimer
  /\ Becomes([Turn("tsgoForceKill") EXCEPT
                !.procs[p].killWait = FALSE,
                !.procs[p].state = IF @ = "alive" THEN "dead" ELSE @,
                !.procs[p].stdin = <<>>])

\* An oxc child closes with an exit code (-1: killed by a signal) and stdout.
OxcClose(i, code, stdout) ==
  /\ Quiescent
  /\ oxcReq[i].child \in {"running", "killed"}
  /\ oxcReq[i].child = "killed" => code = -1
  /\ Becomes(CloseHandler(Turn("oxcClose"), i, code, stdout))

\* The timeout of a running lint fires.  The run timers and the queue-wait
\* timers have the same delay, so they fire in the order they were armed.
OxcRunTimeout(i) ==
  /\ Quiescent
  /\ oxcReq[i].timer /\ oxcReq[i].st = "running"
  /\ Head(oxc.timers) = i
  /\ Becomes(RunTimeoutFired(Turn("oxcTimeout"), i))

\* The queue-wait timeout of a queued lint fires.
OxcQueueTimeout(i) ==
  /\ Quiescent
  /\ oxcReq[i].qtimer
  /\ Head(oxc.timers) = i
  /\ Becomes(QueueTimeoutFired(Turn("oxcQueueTimeout"), i))

\* Time passes.
Tick ==
  /\ Quiescent
  /\ now < MaxClock
  /\ Becomes([Turn("tick") EXCEPT !.now = @ + 1])

\* The keys of direct calls of FileCache and TypeCache.
CacheKeys == {"u1", "u2", "u3"}

\* A direct call of FileCache.get; the value returned is the turn's event.
FileCacheGet(uri, content) ==
  /\ cache.hits + cache.misses < MaxLookups
  /\ LET r == CacheGet(cache, uri, computeHash(content), now)
         item == [NoReq EXCEPT !.uri = uri, !.content = content]
     IN Becomes(Emit([Turn("get") EXCEPT !.out.uri = uri, !.out.content = content,
                                         !.cache = r.cache],
                     Event("returned", 0, item, FALSE, "", r.value, NoParts)))

\* A direct call of FileCache.set with a value of n diagnostics; the value
\* passed is the turn's event.
FileCacheSet(uri, content, n) ==
  /\ cache.evictions < MaxEvictions
  /\ LET item == [NoReq EXCEPT !.uri = uri, !.content = content]
         data == Result(uri,
                        [k \in 1..n |-> Diag(<<uri>>, k, 1, <<"m">>, "tsgo", "TS1")],
                        FALSE, computeHash(content))
     IN Becomes(Emit([Turn("set") EXCEPT
                        !.out.uri = uri, !.out.content = content,
                        !.cache = CacheSet(@, uri, computeHash(content), data, now)],
                     Event("stored", 0, item, FALSE, "", data, NoParts)))

\* A direct call of FileCache.invalidate.
FileCacheInvalidate(uri) ==
  /\ EntryIndex(cache.entries, uri, 1) # 0
  /\ Becomes([Turn("invalidate") EXCEPT !.out.uri = uri,
                                        !.cache = CacheInvalidate(@, uri)])

\* A direct call of FileCache.clear.
FileCacheClear ==
  /\ cache.entries # <<>> \/ cache.hits + cache.misses + cache.evictions > 0
  /\ Becomes([Turn("clear") EXCEPT !.cache = CacheClear(@)])

\* TypeCache.addDependency; the turn records fromUri as its uri and toUri as
\* its content.  A Map is a function on its keys; a Set is the set of its
\* members: the order of insertion shows only in the order of iteration, on
\* which no result of clearDependencies or invalidateWithDependents depends.
AddDependency(fromUri, toUri) ==
  LET Get(map, key) == IF key \in DOMAIN map THEN map[key] ELSE {}
      Put(map, key, set) ==
        [k \in DOMAIN map \cup {key} |-> IF k = key THEN set ELSE map[k]]
      deps == Get(typeCache.dependsOn, fromUri) \cup {toUri}
      rdeps == Get(typeCache.dependedOnBy, toUri) \cup {fromUri}
  IN Becomes([Turn("addDependency") EXCEPT
                !.out.uri = fromUri, !.out.content = toUri,
                !.typeCache.dependsOn = Put(@, fromUri, deps),
                !.typeCache.dependedOnBy = Put(@, toUri, rdeps)])

\* TypeCache.clearDependencies that drops the forward set only.
ClearDependenciesForwardOnly(fromUri) ==
  Becomes([Turn("clearDependencies") EXCEPT
             !.out.uri = fromUri,
             !.typeCache.dependsOn = [k \in DOMAIN @ \ {fromUri} |-> @[k]]])

\* TypeCache.clearDependencies: the reverse set of every member of deps
\* loses fromUri and is dropped when it becomes empty; then the forward set
\* is dropped.
ClearDependencies(fromUri) ==
  LET deps == IF fromUri \in DOMAIN typeCache.dependsOn
                THEN typeCache.dependsOn[fromUri] ELSE {}
      rmap == typeCache.dependedOnBy
      After(toUri) == IF toUri \in deps THEN rmap[toUri] \ {fromUri} ELSE rmap[toUri]
  IN Becomes([Turn("clearDependencies") EXCEPT
                !.out.uri = fromUri,
                !.typeCache.dependedOnBy =
                  [toUri \in {k \in DOMAIN rmap : After(k) # {}} |-> After(toUri)],
                !.typeCache.dependsOn =
                  [k \in DOMAIN @ \ {fromUri} |-> @[k]]])

\* The loop of TypeCache.invalidateWithDependents over its queue (todo): each
\* uri taken off it for the first time is invalidated in the cache and
\* reported as an event of the turn, and its dependents not yet invalidated
\* are queued (here in one fixed order of the uris).
RECURSIVE invalidateWithDependents(_, _, _)
invalidateWithDependents(S, invalidated, todo) ==
  IF todo = <<>> THEN S
  ELSE LET current == Head(todo)
       IN IF current \in invalidated
            THEN invalidateWithDependents(S, invalidated, Tail(todo))
          ELSE LET done == invalidated \cup {current}
                   dependents == IF current \in DOMAIN S.typeCache.dependedOnBy
                                   THEN S.typeCache.dependedOnBy[current] ELSE {}
                   order == CHOOSE q \in [1..Cardinality(CacheKeys) -> CacheKeys] :
                              \A u \in CacheKeys : \E k \in DOMAIN q : q[k] = u
                   S1 == Emit([S EXCEPT !.cache = CacheInvalidate(@, current)],
                              Event("invalidated", 0, [NoReq EXCEPT !.uri = current],
                                    FALSE, "", NoResult, NoParts))
               IN invalidateWithDependents(
                    S1, done,
                    Tail(todo) \o SelectSeq(order, LAMBDA d : d \in dependents
                                                              /\ d \notin done))

\* invalidateWithDependents that stops at the direct dependents of uri.
InvalidateDirectDependents(uri) ==
  LET direct == [k \in DOMAIN typeCache.dependedOnBy \cap {uri} |->
                   typeCache.dependedOnBy[k]]
      S == invalidateWithDependents(
             [Turn("invalidateWithDependents") EXCEPT
                !.out.uri = uri, !.typeCache.dependedOnBy = direct], {}, <<uri>>)
  IN Becomes([S EXCEPT !.typeCache = typeCache])

\* TypeCache.invalidateWithDependents(uri); the Set returned is the uris of
\* the turn's events.
InvalidateWithDependents(uri) ==
  Becomes(invalidateWithDependents(
            [Turn("invalidateWithDependents") EXCEPT !.out.uri = uri], {}, <<uri>>))

\* The type names checked, and KNOWN_PATTERNS in order: each pattern with
\* the names among them that its regular expression accepts.  ZodType<ZodType>
\* is accepted by zod-schema and by recursive-generic (^(\w+)<\1), Foo<Foo> by
\* recursive-generic alone, Foo by none; PrismaClient$Extensions has no "."
\* after "Prisma" and is not a prisma-model.
TypeNames ==
  {"Prisma.UserGetPayload<T>", "PrismaClient$Extensions", "AppRouter",
   "ZodType<ZodType>", "Foo<Foo>", "Foo"}
KNOWN_PATTERNS ==
  <<[name |-> "prisma-model", suggestedMaxDepth |-> 30,
     accepts |-> {"Prisma.UserGetPayload<T>"}],
    [name |-> "prisma-client", suggestedMaxDepth |-> 20,
     accepts |-> {"PrismaClient$Extensions"}],
    [name |-> "trpc-router", suggestedMaxDepth |-> 40, accepts |-> {"AppRouter"}],
    [name |-> "trpc-procedure", suggestedMaxDepth |-> 35, accepts |-> {}],
    [name |-> "next-page-props", suggestedMaxDepth |-> 25, accepts |-> {}],
    [name |-> "next-app-router", suggestedMaxDepth |-> 30, accepts |-> {}],
    [name |-> "zod-schema", suggestedMaxDepth |-> 35, accepts |-> {"ZodType<ZodType>"}],
    [name |-> "recursive-generic", suggestedMaxDepth |-> 15,
     accepts |-> {"ZodType<ZodType>", "Foo<Foo>"}]>>

\* TypeExpansionGuard.matchKnownPattern: the index in KNOWN_PATTERNS of the
\* first pattern that accepts the name, 0 for undefined.
RECURSIVE matchKnownPattern(_, _)
matchKnownPattern(typeName, k) ==
  IF k > Len(KNOWN_PATTERNS) THEN 0
  ELSE IF typeName \in KNOWN_PATTERNS[k].accepts THEN k
  ELSE matchKnownPattern(typeName, k + 1)

\* checkExpansion with the test `>` for `>=`.
CheckExpansionStrict(typeName, currentDepth) ==
  /\ guard.truncationCount < MaxTruncations
  /\ LET knownPattern == matchKnownPattern(typeName, 1)
         suggested == KNOWN_PATTERNS[knownPattern].suggestedMaxDepth
         effectiveMaxDepth ==
           IF knownPattern # 0
             THEN IF guard.maxTypeDepth < suggested THEN guard.maxTypeDepth ELSE suggested
             ELSE guard.maxTypeDepth
         truncated == currentDepth > effectiveMaxDepth
         info == [typeName |-> typeName, depth |-> currentDepth,
                  maxDepth |-> effectiveMaxDepth, truncated |-> truncated]
     IN Becomes(Emit([Turn("checkExpansion") EXCEPT
                        !.out.uri = typeName, !.out.priority = currentDepth,
                        !.guard.truncationCount = IF truncated THEN @ + 1 ELSE @],
                     Event("returned", 0, [NoReq EXCEPT !.uri = typeName], FALSE, "",
                           info, NoParts)))

\* TypeExpansionGuard.checkExpansion; the turn records typeName as its uri
\* and currentDepth as its priority, and the info returned is its event.
\* The expansion stack feeds only info.expansionPath and is left out.
CheckExpansion(typeName, currentDepth) ==
  /\ guard.truncationCount < MaxTruncations
  /\ LET knownPattern == matchKnownPattern(typeName, 1)
         suggested == KNOWN_PATTERNS[knownPattern].suggestedMaxDepth
         effectiveMaxDepth ==
           IF knownPattern # 0
             THEN IF guard.maxTypeDepth < suggested THEN guard.maxTypeDepth ELSE suggested
             ELSE guard.maxTypeDepth
         truncated == currentDepth >= effectiveMaxDepth
         info == [typeName |-> typeName, depth |-> currentDepth,
                  maxDepth |-> effectiveMaxDepth, truncated |-> truncated]
     IN Becomes(Emit([Turn("checkExpansion") EXCEPT
                        !.out.uri = typeName, !.out.priority = currentDepth,
                        !.guard.truncationCount = IF truncated THEN @ + 1 ELSE @],
                     Event("returned", 0, [NoReq EXCEPT !.uri = typeName], FALSE, "",
                           info, NoParts)))

\* PerfTracer.removeTraceTree from the k-th child of the span on: nothing
\* for an id that is not in completedSpans; otherwise the trees of the
\* children, then the span itself, leave the map.
RECURSIVE removeTraceTree(_, _, _)
removeTraceTree(completedSpans, spanId, k) ==
  IF spanId \notin DOMAIN completedSpans THEN completedSpans
  ELSE IF k > Len(completedSpans[spanId].children)
    THEN [id \in DOMAIN completedSpans \ {spanId} |-> completedSpans[id]]
  ELSE removeTraceTree(
         removeTraceTree(completedSpans, completedSpans[spanId].children[k], 1),
         spanId, k + 1)

\* PerfTracer.evictOldTraces
RECURSIVE evictOldTraces(_)
evictOldTraces(T) ==
  IF Len(T.rootHistory) > T.maxHistory
    THEN evictOldTraces([T EXCEPT
           !.rootHistory = Tail(@),
           !.completedSpans = removeTraceTree(@, Head(T.rootHistory), 1)])
  ELSE T

\* PerfTracer.startSpan(name, parentId); parentId 0 stands for undefined.
\* Ids are issued in sequence in place of randomUUID(); the turn records
\* the id returned as its priority.
StartSpan(parentId) ==
  LET id == Len(tracer.parents) + 1
      span == [startTime |-> now, endTime |-> -1, parentId |-> parentId,
               children |-> <<>>]
      T1 == [tracer EXCEPT
               !.activeSpans = [i \in DOMAIN @ \cup {id} |->
                                  IF i = id THEN span ELSE @[i]],
               !.parents = Append(@, parentId)]
  IN /\ id <= MaxSpans
     /\ Becomes([Turn("startSpan") EXCEPT
                   !.out.priority = id,
                   !.tracer = IF parentId = 0
                                THEN evictOldTraces([T1 EXCEPT
                                                       !.rootHistory = Append(@, id)])
                                ELSE T1])

\* endSpan that takes the span from completedSpans when it is not active.
EndSpanAgain(spanId) ==
  LET known == spanId \in DOMAIN tracer.activeSpans \cup DOMAIN tracer.completedSpans
      old == IF spanId \in DOMAIN tracer.activeSpans THEN tracer.activeSpans[spanId]
             ELSE tracer.completedSpans[spanId]
      span == [old EXCEPT !.endTime = now]
      active1 == [i \in DOMAIN tracer.activeSpans \ {spanId} |-> tracer.activeSpans[i]]
      completed1 == [i \in DOMAIN tracer.completedSpans \cup {spanId} |->
                       IF i = spanId THEN span ELSE tracer.completedSpans[i]]
      Link(map) == IF span.parentId \in DOMAIN map
                     THEN [map EXCEPT ![span.parentId].children = Append(@, spanId)]
                     ELSE map
  IN IF ~known THEN Becomes([Turn("endSpan") EXCEPT !.out.priority = spanId])
     ELSE Becomes([Turn("endSpan") EXCEPT
            !.out.priority = spanId,
            !.tracer.activeSpans = Link(active1),
            !.tracer.completedSpans =
              IF span.parentId \in DOMAIN active1 THEN completed1 ELSE Link(completed1),
            !.tracer.slow = IF span.endTime - span.startTime > tracer.slowThresholdMs
                              THEN Append(@, spanId) ELSE @])

\* PerfTracer.endSpan(spanId), with a slow-span callback installed that
\* records the id it is called with; the turn records spanId as its priority.
EndSpan(spanId) ==
  LET span == [tracer.activeSpans[spanId] EXCEPT !.endTime = now]
      active1 == [i \in DOMAIN tracer.activeSpans \ {spanId} |-> tracer.activeSpans[i]]
      completed1 == [i \in DOMAIN tracer.completedSpans \cup {spanId} |->
                       IF i = spanId THEN span ELSE tracer.completedSpans[i]]
      Link(map) == IF span.parentId \in DOMAIN map
                     THEN [map EXCEPT ![span.parentId].children = Append(@, spanId)]
                     ELSE map
  IN IF spanId \notin DOMAIN tracer.activeSpans
       THEN Becomes([Turn("endSpan") EXCEPT !.out.priority = spanId])
     ELSE Becomes([Turn("endSpan") EXCEPT
            !.out.priority = spanId,
            !.tracer.activeSpans = Link(active1),
            !.tracer.completedSpans =
              IF span.parentId \in DOMAIN active1 THEN completed1 ELSE Link(completed1),
            !.tracer.slow = IF span.endTime - span.startTime > tracer.slowThresholdMs
                              THEN Append(@, spanId) ELSE @])

\* LogRingBuffer.push.  The buffer is an array of capacity slots that are
\* undefined until written: a function on the indices written so far.
push(R, entry) ==
  [R EXCEPT !.buffer = [i \in DOMAIN @ \cup {R.head} |->
                          IF i = R.head THEN entry ELSE @[i]],
            !.head = (R.head + 1) % R.capacity,
            !.count = IF @ < R.capacity THEN @ + 1 ELSE @]

\* toArray that always reads from slot 0 on.
RECURSIVE toArrayFromZero(_, _)
toArrayFromZero(R, i) ==
  IF i >= R.count THEN <<>>
  ELSE (IF i % R.capacity \in DOMAIN R.buffer THEN <<R.buffer[i % R.capacity]>> ELSE <<>>)
         \o toArrayFromZero(R, i + 1)

\* LogRingBuffer.toArray: the loop from its i-th round on.
RECURSIVE toArray(_, _)
toArray(R, i) ==
  LET start == IF R.count < R.capacity THEN 0 ELSE R.head
      idx == (start + i) % R.capacity
  IN IF i >= R.count THEN <<>>
     ELSE (IF idx \in DOMAIN R.buffer THEN <<R.buffer[idx]>> ELSE <<>>)
            \o toArray(R, i + 1)

\* StructuredLogger.scheduleFlush.  flushTimer 0 stands for undefined;
\* timers is the set of timeouts the event loop holds for the logger.
scheduleFlush(L) ==
  IF L.flushTimer # 0 THEN L
  ELSE LET id == CHOOSE n \in 1..(Cardinality(L.timers) + 1) : n \notin L.timers
       IN [L EXCEPT !.flushTimer = id, !.timers = @ \cup {id}]

\* flush that hands the batch over and keeps it.
flushKeepsBatch(L) ==
  LET L1 == IF L.flushTimer # 0
              THEN [L EXCEPT !.timers = @ \ {L.flushTimer}, !.flushTimer = 0]
              ELSE L
  IN IF L1.batch = <<>> THEN L1
     ELSE [L1 EXCEPT !.flushed = Append(@, L1.batch)]

\* StructuredLogger.flush, with a flush callback that records the batch it
\* is called with in flushed.
flush(L) ==
  LET L1 == IF L.flushTimer # 0
              THEN [L EXCEPT !.timers = @ \ {L.flushTimer}, !.flushTimer = 0]
              ELSE L
  IN IF L1.batch = <<>> THEN L1
     ELSE [L1 EXCEPT !.batch = <<>>, !.flushed = Append(@, L1.batch)]

\* StructuredLogger.append(entry).  The entry is identified by its place
\* in the order of the appends, 1 for the first; the turn records it as
\* its priority.
LoggerAppend ==
  LET entry == logger.appended + 1
  IN /\ entry <= MaxAppends
     /\ Becomes([Turn("append") EXCEPT
                   !.out.priority = entry,
                   !.logger = scheduleFlush([logger EXCEPT
                                !.ringBuffer = push(@, entry),
                                !.batch = Append(@, entry),
                                !.appended = entry])])

\* An explicit StructuredLogger.flush().
LoggerFlush ==
  Becomes([Turn("flush") EXCEPT !.logger = flush(@)])

\* The callback of the timeout set by scheduleFlush.
FlushTimer ==
  \E id \in logger.timers :
    Becomes([Turn("flushTimer") EXCEPT
               !.logger = flush([logger EXCEPT !.timers = @ \ {id},
                                                !.flushTimer = 0])])

\* StructuredLogger.getRecentEntries(); the turn records the array returned.
GetRecentEntries ==
  Becomes(Emit(Turn("getRecentEntries"),
               Event("returned", 0, NoReq, FALSE, "",
                     toArray(logger.ringBuffer, 0), NoParts)))

\* TypeCache.clear
TypeCacheClear ==
  /\ \/ cache.entries # <<>> \/ cache.hits + cache.misses + cache.evictions > 0
     \/ typeCache.dependsOn # <<>>
  /\ Becomes([Turn("typeCacheClear") EXCEPT
                !.cache = CacheClear(@),
                !.typeCache = [dependsOn |-> <<>>, dependedOnBy |-> <<>>]])

\* The merge step of executeAnalysis on its own: both analyzers fulfilled
\* with the given raw diagnostics for u1, converted, concatenated (tsgo
\* first) and deduplicated.
Merge(rawTsgo, rawOxc) ==
  LET t == convertDiagnostics("u1", rawTsgo)
      o == parseOutput("u1", [text |-> "json", items |-> rawOxc])
      merged == deduplicateDiagnostics(t \o o)
      item == [NoReq EXCEPT !.uri = "u1", !.content = "x"]
  IN Becomes(Emit(Turn("deduplicateDiagnostics"),
                  Event("merged", 0, item, FALSE, "",
                        Result("u1", merged, FALSE, computeHash("x")),
                        [tsgo |-> [st |-> "fulfilled", diagnostics |-> t,
                                   why |-> "result"],
                         oxc |-> [st |-> "fulfilled", diagnostics |-> o,
                                  why |-> "parsed"]])))

TsgoResponses ==
  {[type |-> "result", diagnostics |-> d, for |-> 0] : d \in TsgoOutputs}
    \cup {[type |-> "error", diagnostics |-> <<>>, for |-> 0]}

ExitCodes == {0, 1, 2, -1}

\* The state once `await bridge.start()` has returned.
StartedWorld(cfg, cacheLimits) ==
  LET S0 == ConstructedWorld(cfg, cacheLimits)
      S1 == IF cfg.tsgo THEN TsgoStart(S0) ELSE S0
  IN [S1 EXCEPT !.oxc.started = cfg.oxc, !.started = TRUE]

Config(t, o, c, slots, workers, lints) ==
  [tsgo |-> t, oxc |-> o, cache |-> c, maxConcurrentAnalyses |-> slots,
   poolSize |-> workers, maxConcurrency |-> lints]

CacheLimits(n, bytes, ttl) == [maxEntries |-> n, maxSizeBytes |-> bytes, ttlMs |-> ttl]

\* --------------------------------------------------------- specifications
OnlyResults == {r \in TsgoResponses : r.type = "result"}

\* Queue deduplication: the checker alone, one worker, one analysis slot, the
\* result cache on.  Calls for u1 vary content and force; forced calls for u2
\* keep the slot busy.
InitDedup ==
  IsWorld(StartedWorld(Config(TRUE, FALSE, TRUE, 1, 1, 1), CacheLimits(2, 12, 1)))

NextDedup ==
  \/ Calls({"u1"}, Contents, BOOLEAN, {Open})
  \/ Calls({"u2"}, {"x"}, {TRUE}, {Open})
  \/ \E i \in Ids : ExecuteAnalysisFinish(i)
  \/ \E p \in Pids, r \in OnlyResults : TsgoRespond(p, r)
  \/ Shutdown
  \/ \E p \in Pids : TsgoExit(p)
  \/ TsgoShutdownDone

SpecDedup == InitDedup /\ [][NextDedup]_vars

\* Dispatch order: the checker alone, one worker, one analysis slot, no
\* cache; calls of every priority for both uris.
InitPriority ==
  IsWorld(StartedWorld(Config(TRUE, FALSE, FALSE, 1, 1, 1), CacheLimits(2, 12, 1)))

NextPriority ==
  \/ Calls(Uris, {"x"}, {FALSE}, AnalysisPriority)
  \/ \E i \in Ids : ExecuteAnalysisFinish(i)
  \/ \E p \in Pids, r \in TsgoResponses : TsgoRespond(p, r)
  \/ Shutdown
  \/ \E p \in Pids : TsgoExit(p)
  \/ TsgoShutdownDone

SpecPriority == InitPriority /\ [][NextPriority]_vars

\* The result cache: the checker alone, two analysis slots, one worker, a
\* cache of one entry whose entries expire as soon as the clock moves; calls
\* for u1 vary content and force, forced calls for u2 push u1's entry out.
InitCache ==
  IsWorld(StartedWorld(Config(TRUE, FALSE, TRUE, 2, 1, 1), CacheLimits(1, 12, 0)))

NextCache ==
  \/ Calls({"u1"}, Contents, BOOLEAN, {Open})
  \/ Calls({"u2"}, {"x"}, {TRUE}, {Open})
  \/ \E i \in Ids : ExecuteAnalysisFinish(i)
  \/ \E p \in Pids, r \in OnlyResults : TsgoRespond(p, r)
  \/ Tick
  \/ InvalidateCache("u1")
  \/ ClearCache

SpecCache == InitCache /\ [][NextCache]_vars

\* Analyzer failures: both analyzers, two analysis slots, one tsgo worker,
\* one lint at a time, no cache; the bridge is started inside the behaviour,
\* so that calls can come while only tsgo is running; forced calls for u1.
InitFailure ==
  IsWorld(ConstructedWorld(Config(TRUE, TRUE, FALSE, 2, 1, 1), CacheLimits(1, 12, 0)))

NextFailure ==
  \/ Start
  \/ OxcStarted
  \/ Calls({"u1"}, {"x"}, {TRUE}, {Open})
  \/ \E i \in Ids : ExecuteAnalysisFinish(i)
  \/ \E p \in Pids, r \in TsgoResponses : TsgoRespond(p, r)
  \/ \E i \in Ids : TsgoTimeout(i)
  \/ \E p \in Pids : TsgoExit(p)
  \/ \E i \in Ids, code \in ExitCodes, stdout \in OxcStdouts : OxcClose(i, code, stdout)
  \/ \E i \in Ids : OxcRunTimeout(i)
  \/ Shutdown
  \/ TsgoShutdownDone

SpecFailure == InitFailure /\ [][NextFailure]_vars

\* The merge on its own: every pair of raw diagnostic lists of at most
\* MaxDiags items over RawSamples.  The samples name a second file whose
\* name is the first file's name followed by ":1", and a message that
\* starts with a number and a colon.
RawSamples ==
  {Raw(<<>>, 1, 1, <<"x">>, "k"),
   Raw(<<>>, 1, 1, <<"2", ":", "x">>, "k"),
   Raw(<<"u1", ":", "1">>, 1, 2, <<"x">>, "k")}

RawLists ==
  UNION {[1..n -> RawSamples] : n \in 0..MaxDiags}

InitMerge ==
  IsWorld(ConstructedWorld(Config(TRUE, TRUE, FALSE, 1, 1, 1), CacheLimits(1, 12, 0)))

NextMerge == \E rawTsgo \in RawLists, rawOxc \in RawLists : Merge(rawTsgo, rawOxc)

SpecMerge == InitMerge /\ [][NextMerge]_vars

\* Completion order: the checker alone with two workers, two analysis
\* slots, the cache on; forced calls for u1 with either content, and for u2.
InitOrder ==
  IsWorld(StartedWorld(Config(TRUE, FALSE, TRUE, 2, 2, 1), CacheLimits(2, 12, 1)))

NextOrder ==
  \/ Calls({"u1"}, Contents, {TRUE}, {Open})
  \/ Calls({"u2"}, {"x"}, {TRUE}, {Open})
  \/ \E i \in Ids : ExecuteAnalysisFinish(i)
  \/ \E p \in Pids, r \in OnlyResults : TsgoRespond(p, r)

SpecOrder == InitOrder /\ [][NextOrder]_vars

\* The worker pool: the checker alone, one worker, three analysis slots, no
\* cache; forced calls for u1; the worker answers, is pinged, times out and
\* exits.
InitPool ==
  IsWorld(StartedWorld(Config(TRUE, FALSE, FALSE, 3, 1, 1), CacheLimits(1, 12, 0)))

NextPool ==
  \/ Calls({"u1"}, {"x"}, {TRUE}, {Open})
  \/ \E i \in Ids : ExecuteAnalysisFinish(i)
  \/ \E p \in Pids, r \in TsgoResponses : TsgoRespond(p, r)
  \/ \E i \in Ids : TsgoTimeout(i)
  \/ \E p \in Pids : TsgoExit(p)
  \/ HealthCheck
  \/ \E p \in Pids : TsgoHealthReply(p)
  \/ \E p \in Pids : TsgoFlush(p)

SpecPool == InitPool /\ [][NextPool]_vars

\* Shutdown of the pool: the checker alone, two workers, two analysis slots,
\* no cache; forced calls for u1; the workers answer and exit, the bridge is
\* shut down and the timers of killProcess fire.
InitKill ==
  IsWorld(StartedWorld(Config(TRUE, FALSE, FALSE, 2, 2, 1), CacheLimits(1, 12, 0)))

NextKill ==
  \/ Calls({"u1"}, {"x"}, {TRUE}, {Open})
  \/ \E i \in Ids : ExecuteAnalysisFinish(i)
  \/ \E p \in Pids, r \in OnlyResults : TsgoRespond(p, r)
  \/ \E p \in Pids : TsgoExit(p)
  \/ Shutdown
  \/ \E p \in Pids : TsgoSigterm(p)
  \/ \E p \in Pids : TsgoForceKill(p)
  \/ TsgoShutdownDone

SpecKill == InitKill /\ [][NextKill]_vars

\* Respawning: the checker alone, a pool of one worker or more, no calls;
\* workers die and exit, the memory timer fires, the bridge is shut down
\* and started again.
InitRespawn ==
  \E poolSize \in 1..MaxProcs :
    IsWorld(StartedWorld(Config(TRUE, FALSE, FALSE, 1, poolSize, 1),
                         CacheLimits(1, 12, 0)))

NextRespawn ==
  \/ \E p \in Pids : TsgoDie(p)
  \/ \E p \in Pids : TsgoExit(p)
  \/ MemoryCheck
  \/ Shutdown
  \/ \E p \in Pids : TsgoSigterm(p)
  \/ \E p \in Pids : TsgoForceKill(p)
  \/ TsgoShutdownDone
  \/ Restart

SpecRespawn == InitRespawn /\ [][NextRespawn]_vars

\* Settling: both analyzers, one or three analysis slots, one worker, one
\* lint at a time, no cache; forced calls for u1.  The worker and the lint
\* child may answer, exit or do nothing for ever; the bridge may be shut
\* down.  What the event loop is bound to run is fair: the timeouts of the
\* checker request, of the lint run and of the wait for a lint slot, the
\* continuation of a settled shutdown, and the continuation of a settled
\* analysis.  The last is enabled exactly in the states where an analysis
\* is settled, so its weak fairness is stated as: again and again no
\* analysis is settled.
InitSettle ==
  \E slots \in {1, 3} :
    IsWorld(StartedWorld(Config(TRUE, TRUE, FALSE, slots, 1, 1),
                         CacheLimits(1, 12, 0)))

NextSettle ==
  \/ Calls({"u1"}, {"x"}, {TRUE}, {Open})
  \/ \E i \in Ids : ExecuteAnalysisFinish(i)
  \/ \E p \in Pids, r \in OnlyResults : TsgoRespond(p, r)
  \/ \E i \in Ids : TsgoTimeout(i)
  \/ \E p \in Pids : TsgoExit(p)
  \/ \E i \in Ids, code \in {0, -1} : OxcClose(i, code, EmptyStdout)
  \/ \E i \in Ids : OxcRunTimeout(i)
  \/ \E i \in Ids : OxcQueueTimeout(i)
  \/ Shutdown
  \/ TsgoShutdownDone

SpecSettle ==
  /\ InitSettle /\ [][NextSettle]_vars
  /\ WF_vars(\E i \in Ids : TsgoTimeout(i))
  /\ WF_vars(\E i \in Ids : OxcRunTimeout(i))
  /\ WF_vars(\E i \in Ids : OxcQueueTimeout(i))
  /\ WF_vars(TsgoShutdownDone)
  /\ []<>(\A i \in Ids : ~Settled(World, i))

\* The lint queue: the linter alone, one lint at a time, three analysis
\* slots, no cache; forced calls for u1; lint children close and both kinds
\* of lint timer fire (a queue-wait timer can fire only when the lint running
\* then was started after the waiting one was queued, which takes three).
TwoFindings ==
  [text |-> "json",
   items |-> <<Raw(<<>>, 1, 1, <<"m">>, "r1"), Raw(<<>>, 2, 1, <<"m">>, "r2")>>]

\* How a lint child can end: every exit code with every output, and exit
\* code 1 with two findings.
LintRuns ==
  {[code |-> c, stdout |-> o] : c \in ExitCodes, o \in OxcStdouts}
    \cup {[code |-> 1, stdout |-> TwoFindings]}

InitLint ==
  IsWorld(StartedWorld(Config(FALSE, TRUE, FALSE, 3, 1, 1), CacheLimits(1, 12, 0)))

NextLint ==
  \/ Calls({"u1"}, {"x"}, {TRUE}, {Open})
  \/ \E i \in Ids : ExecuteAnalysisFinish(i)
  \/ \E i \in Ids, r \in LintRuns : OxcClose(i, r.code, r.stdout)
  \/ \E i \in Ids : OxcRunTimeout(i)
  \/ \E i \in Ids : OxcQueueTimeout(i)

SpecLint == InitLint /\ [][NextLint]_vars

\* Storing of results: the checker alone, one worker, two analysis slots, the
\* result cache on with room for one entry and a TTL of 0 ms.  Calls for u1
\* vary content and force; a request the worker leaves unanswered times out
\* and its analysis resolves with an empty result.
InitStore ==
  IsWorld(StartedWorld(Config(TRUE, FALSE, TRUE, 2, 1, 1), CacheLimits(1, 12, 0)))

NextStore ==
  \/ Calls({"u1"}, Contents, BOOLEAN, {Open})
  \/ \E i \in Ids : ExecuteAnalysisFinish(i)
  \/ \E p \in Pids, r \in OnlyResults : TsgoRespond(p, r)
  \/ \E i \in Ids : TsgoTimeout(i)
  \/ Tick

SpecStore == InitStore /\ [][NextStore]_vars

\* The FileCache on its own, called directly: room for one or two entries,
\* for 4 or 12 bytes, a TTL of 0 or 1 ms; three keys, values of 2 to 6 bytes.
InitFileCache ==
  \E n \in 1..2, bytes \in {4, 12}, ttl \in 0..1 :
    IsWorld(ConstructedWorld(Config(FALSE, FALSE, TRUE, 1, 1, 1),
                             CacheLimits(n, bytes, ttl)))

NextFileCache ==
  \/ \E uri \in CacheKeys, content \in Contents : FileCacheGet(uri, content)
  \/ \E uri \in CacheKeys, n \in 0..2 : FileCacheSet(uri, "x", n)
  \/ \E uri \in CacheKeys : FileCacheInvalidate(uri)
  \/ FileCacheClear
  \/ Tick

SpecFileCache == InitFileCache /\ [][NextFileCache]_vars

\* The TypeCache on its own: its FileCache has room for three entries that
\* do not expire; dependency edges between three uris, self-edges included.
InitTypeCache ==
  IsWorld(ConstructedWorld(Config(FALSE, FALSE, TRUE, 1, 1, 1), CacheLimits(3, 12, 1)))

NextTypeCache ==
  \/ \E fromUri \in CacheKeys, toUri \in CacheKeys : AddDependency(fromUri, toUri)
  \/ \E fromUri \in CacheKeys : ClearDependencies(fromUri)
  \/ \E uri \in CacheKeys : InvalidateWithDependents(uri)
  \/ \E uri \in CacheKeys : FileCacheSet(uri, "x", 0)
  \/ TypeCacheClear

SpecTypeCache == InitTypeCache /\ [][NextTypeCache]_vars

\* The TypeExpansionGuard on its own, constructed with a maximum depth of
\* 10, 20 or 50 (the default); depths on both sides of every limit.
InitGuard ==
  \E maxTypeDepth \in {10, 20, 50} :
    IsWorld([ConstructedWorld(Config(FALSE, FALSE, FALSE, 1, 1, 1), CacheLimits(1, 12, 0))
               EXCEPT !.guard.maxTypeDepth = maxTypeDepth])

NextGuard ==
  \E typeName \in TypeNames,
     currentDepth \in {0, 9, 10, 14, 15, 19, 20, 29, 30, 34, 35, 39, 40, 49, 50, 51} :
    CheckExpansion(typeName, currentDepth)

SpecGuard == InitGuard /\ [][NextGuard]_vars

\* The PerfTracer on its own: a slow threshold of 0 ms, a history of one or
\* two roots; spans are started under no parent or under any id issued so
\* far, and ended by any id, issued or not.
InitTracer ==
  \E maxHistory \in 1..2 :
    IsWorld([ConstructedWorld(Config(FALSE, FALSE, FALSE, 1, 1, 1), CacheLimits(1, 12, 0))
               EXCEPT !.tracer.maxHistory = maxHistory,
                      !.tracer.slowThresholdMs = 0])

NextTracer ==
  \/ \E parentId \in 0..Len(tracer.parents) : StartSpan(parentId)
  \/ \E spanId \in 1..MaxSpans : EndSpan(spanId)
  \/ Tick

SpecTracer == InitTracer /\ [][NextTracer]_vars

\* The StructuredLogger on its own, with a ring buffer of one to three
\* slots: entries are appended, flushed explicitly or by the batch timer,
\* and the ring buffer is read, in every order.
InitLogger ==
  \E ringCapacity \in 1..3 :
    IsWorld([ConstructedWorld(Config(FALSE, FALSE, FALSE, 1, 1, 1), CacheLimits(1, 12, 0))
               EXCEPT !.logger.ringBuffer.capacity = ringCapacity])

NextLogger ==
  \/ LoggerAppend
  \/ LoggerFlush
  \/ FlushTimer
  \/ GetRecentEntries

SpecLogger == InitLogger /\ [][NextLogger]_vars

\* ------------------------------------------------------------------ claims
\* The events of a turn that settle the item of slot i.
EventsFor(o, i) == {k \in 1..Len(o.events) : o.events[k].slot = i}

\* The queued items for uri.
QueuedFor(uri) == {i \in Ids : req[i].status = "queued" /\ req[i].uri = uri}

OnePerUri ==
  \A k, l \in 1..Len(queue) : req[queue[k]].uri = req[queue[l]].uri => k = l

\* The turn just taken failed, once, with the superseded error, the
\* undispatched item that was in slot i.
SupersededOnce(i) ==
  /\ req[i].status = "queued"
  /\ Cardinality(EventsFor(out', i)) = 1
  /\ \A k \in EventsFor(out', i) :
       /\ out'.events[k].kind = "rejected"
       /\ out'.events[k].error = Superseded
       /\ ~out'.events[k].dispatched
       /\ out'.events[k].content = req[i].content
  /\ \A k \in 1..Len(queue') : queue'[k] # i
  /\ req'[i].status = "free"

\* The item of the call just made is pending, queued or dispatched.
CallPending ==
  \E j \in Ids :
    /\ req[j].status = "free"
    /\ req'[j].status \in {"queued", "active"}
    /\ req'[j].uri = out'.uri /\ req'[j].content = out'.content
    /\ req'[j].status = "queued" <=> \E k \in 1..Len(queue') : queue'[k] = j

\* Every dispatched item that resolved in the turn got a result for its own
\* uri and content.
OwnResults ==
  \A k \in 1..Len(out'.events) :
    (out'.events[k].kind = "resolved" /\ out'.events[k].dispatched) =>
      /\ out'.events[k].result.valid
      /\ out'.events[k].result.uri = out'.events[k].uri
      /\ out'.events[k].result.contentHash = computeHash(out'.events[k].content)
      /\ ~out'.events[k].result.cached

\* C1 as stated: the queue never holds two items for one uri, and every
\* analyzeFile call for a uri that has a queued item removes that item and
\* fails its completion exactly once with the superseded error, the new
\* request being queued or dispatched in its place.
C1_EveryCallSupersedes ==
  [][/\ OnePerUri'
     /\ out'.op = "analyzeFile" =>
          /\ \A i \in QueuedFor(out'.uri) : SupersededOnce(i)
          /\ QueuedFor(out'.uri) # {} => CallPending]_vars

\* C1 (amended): the queue never holds two items for one uri; an analyzeFile
\* call that the cache does not answer removes the queued item for its uri,
\* if there is one, and fails that item's completion exactly once with the
\* superseded error, without its having been dispatched; the new item is
\* queued or dispatched; and a dispatched item that resolves returns a result
\* for its own uri and content.
C1_MissSupersedes ==
  [][/\ OnePerUri'
     /\ (out'.op = "analyzeFile" /\ ~IsHit(out'.uri, out'.content, out'.force)) =>
          /\ \A i \in QueuedFor(out'.uri) : SupersededOnce(i)
          /\ CallPending
     /\ OwnResults]_vars

\* C1 witness: a call has just superseded a queued item that carried another
\* content, and its own item is queued in its place.
C1_Witness ==
  /\ out.op = "analyzeFile"
  /\ \E k \in 1..Len(out.events) :
       /\ out.events[k].kind = "rejected"
       /\ out.events[k].error = Superseded
       /\ out.events[k].uri = out.uri
       /\ out.events[k].content # out.content
  /\ \E j \in Ids :
       /\ req[j].status = "queued"
       /\ req[j].uri = out.uri /\ req[j].content = out.content
  /\ Len(queue) = 2

\* Position of x in s, Len(s) + 1 when absent.
RECURSIVE Pos(_, _)
Pos(s, x) ==
  IF s = <<>> THEN 1
  ELSE IF Head(s) = x THEN 1
  ELSE 1 + Pos(Tail(s), x)

\* Item j, still queued after the turn, was called before item i.
ArrivedBefore(j, i) ==
  /\ req[j].status = "queued"
  /\ req[i].status = "free" \/ Pos(arrivals, j) < Pos(arrivals, i)

\* C2: an item dispatched in a turn has the lowest priority number of the
\* items pending at the dispatch and is the earliest called among those of
\* its priority, a superseding item counting from its own call; and a
\* dispatched item stays dispatched until it resolves.
C2_DispatchOrder ==
  [][/\ \A i, j \in Ids :
          (req[i].status # "active" /\ req'[i].status = "active"
             /\ req'[j].status = "queued") =>
            /\ req'[i].priority <= req'[j].priority
            /\ req'[i].priority = req'[j].priority => ~ArrivedBefore(j, i)
     /\ \A i \in Ids :
          req[i].status = "active" =>
            \/ req'[i] = req[i]
            \/ /\ req'[i].status = "free"
               /\ \E k \in EventsFor(out', i) :
                    out'.events[k].kind = "resolved" /\ out'.events[k].dispatched]_vars

\* C2 witness: a call of higher priority has just superseded a queued item
\* and stands in the queue before an item called earlier, which it will be
\* dispatched before.
C2_Witness ==
  /\ out.op = "analyzeFile"
  /\ \E k \in 1..Len(out.events) : out.events[k].error = Superseded
  /\ Len(queue) = 2
  /\ req[queue[1]].uri = out.uri
  /\ req[queue[1]].priority < req[queue[2]].priority
  /\ arrivals = <<queue[2], queue[1]>>

\* The cache holds an unexpired entry for uri with this content hash.
CacheHolds(uri, contentHash) ==
  \E k \in 1..Len(cache.entries) :
    /\ cache.entries[k].uri = uri
    /\ cache.entries[k].contentHash = contentHash
    /\ now - cache.entries[k].createdAt <= cache.ttlMs

\* The last analysis of the uri to finish was for this content, and no
\* invalidate, clear or new analysis of the uri has come since.
CompletedFresh(uri, content) ==
  /\ completed[uri].fresh
  /\ completed[uri].result.valid
  /\ completed[uri].result.contentHash = computeHash(content)

\* The call just made was answered in its own turn with cached = TRUE and
\* the diagnostics the last finished analysis of its uri returned.
AnsweredFromCache ==
  \E k \in 1..Len(out'.events) :
    /\ out'.events[k].kind = "resolved"
    /\ out'.events[k].result.cached
    /\ out'.events[k].result.diagnostics = completed[out'.uri].result.diagnostics

\* C3 as stated: with the cache enabled, an unforced call for a uri and
\* content whose analysis has completed, with no invalidate, clear or
\* analysis of the uri since, returns cached = TRUE and the same diagnostics.
C3_RepeatIsCached ==
  [][(/\ out'.op = "analyzeFile"
      /\ config.cache /\ ~out'.force
      /\ CompletedFresh(out'.uri, out'.content)) => AnsweredFromCache]_vars

\* C3 (amended): the same, provided the entry stored by that analysis is
\* still in the cache: it has not been evicted and is no older than the TTL.
C3_RepeatIsCachedWhileHeld ==
  [][(/\ out'.op = "analyzeFile"
      /\ config.cache /\ ~out'.force
      /\ CompletedFresh(out'.uri, out'.content)
      /\ CacheHolds(out'.uri, computeHash(out'.content))) => AnsweredFromCache]_vars

\* C3 witness: a repeated unforced call has just been answered from the
\* cache with the diagnostics of the finished analysis, which are not empty.
C3_Witness ==
  /\ out.op = "analyzeFile" /\ ~out.force
  /\ completed[out.uri].fresh
  /\ Len(out.events) = 1
  /\ out.events[1].result.cached
  /\ out.events[1].result.diagnostics = completed[out.uri].result.diagnostics
  /\ out.events[1].result.diagnostics # <<>>

\* C4: once an analysis of a uri has finished for one content, a call for
\* the uri with a content of another hash is not answered from the cache;
\* every result returned carries the hash of the content it was asked for,
\* one computed by a dispatch has cached = FALSE, and when it is returned
\* every entry the cache holds for the uri has that hash and that result.
C4_NoStaleResult ==
  [][/\ (/\ out'.op = "analyzeFile"
         /\ completed[out'.uri].result.valid
         /\ completed[out'.uri].result.contentHash # computeHash(out'.content)) =>
           /\ \A k \in 1..Len(out'.events) : out'.events[k].kind # "resolved"
           /\ \E j \in Ids : /\ req'[j].status \in {"queued", "active"}
                             /\ req'[j].uri = out'.uri
                             /\ req'[j].content = out'.content
     /\ \A k \in 1..Len(out'.events) :
          out'.events[k].kind = "resolved" =>
            /\ out'.events[k].result.uri = out'.events[k].uri
            /\ out'.events[k].result.contentHash = computeHash(out'.events[k].content)
            /\ out'.events[k].dispatched =>
                 /\ ~out'.events[k].result.cached
                 /\ \A e \in 1..Len(cache'.entries) :
                      cache'.entries[e].uri = out'.events[k].uri =>
                        /\ cache'.entries[e].contentHash
                             = computeHash(out'.events[k].content)
                        /\ cache'.entries[e].data = out'.events[k].result]_vars

\* C4 witness: the analysis of u1 had finished for content x and was in the
\* cache; an unforced call with content y has just been made: the lookup
\* removed the entry, nothing was returned and the call's item is dispatched.
C4_Witness ==
  /\ out.op = "analyzeFile" /\ out.uri = "u1" /\ out.content = "y" /\ ~out.force
  /\ out.events = <<>>
  /\ completed["u1"].result.valid
  /\ completed["u1"].result.contentHash = computeHash("x")
  /\ cache.entries = <<>> /\ cache.misses = 2 /\ cache.evictions = 0 /\ now = 0
  /\ \E j \in Ids : /\ req[j].status = "active"
                    /\ req[j].uri = "u1" /\ req[j].content = "y"

\* C5: a call the cache answers resolves in its own turn with cached = TRUE
\* and the digest of the content passed, and leaves the queue, the count of
\* running analyses, filesAnalyzedCount and both pools as they were.
C5_HitFrame ==
  [][(/\ out'.op = "analyzeFile"
      /\ config.cache /\ ~out'.force
      /\ CacheHolds(out'.uri, computeHash(out'.content))) =>
        /\ Len(out'.events) = 1
        /\ out'.events[1].kind = "resolved"
        /\ out'.events[1].result.cached
        /\ out'.events[1].result.uri = out'.uri
        /\ out'.events[1].result.contentHash = computeHash(out'.content)
        /\ UNCHANGED <<req, queue, arrivals, inFlight, activeAnalyses, filesAnalyzedCount,
                       tsgo, pool, procs, pendingRequests, tsgoReq,
                       oxc, activeLints, pendingQueue, oxcReq>>]_vars

\* C5 witness: a call has just been answered from the cache while another
\* analysis is running and a third is queued.
C5_Witness ==
  /\ out.op = "analyzeFile"
  /\ Len(out.events) = 1
  /\ out.events[1].result.cached
  /\ activeAnalyses > 0
  /\ pendingRequests # <<>>

\* The (file, line, column, message) key of a diagnostic.
TupleKey(d) == <<d.file, d.line, d.column, d.message>>

\* The events of the turn just taken in which a dispatched analysis resolved.
Analyses ==
  {k \in 1..Len(out.events) :
     out.events[k].kind = "resolved" /\ out.events[k].dispatched}

\* An analyzer that answered with its diagnostics; one that failed: its
\* promise was rejected (pool not running, queue-wait timeout, pool shut
\* down), or it answered with an error, timed out, or its process ended
\* without output.
Survives(part) == part.st = "fulfilled" /\ part.why \in {"result", "parsed"}
FailedPart(part) ==
  \/ part.st = "rejected"
  \/ part.st = "fulfilled" /\ part.why \in {"error", "timeout", "exit"}

Contains(s, d) == \E k \in 1..Len(s) : s[k] = d

\* d is in ds, and no diagnostic before its first occurrence has its key.
FirstOfKey(ds, d) ==
  \E k \in 1..Len(ds) :
    /\ ds[k] = d
    /\ \A j \in 1..(k - 1) : TupleKey(ds[j]) # TupleKey(d)

\* Every key of ds has an item in merged.
KeysCovered(ds, merged) ==
  \A j \in 1..Len(ds) :
    \E m \in 1..Len(merged) : TupleKey(merged[m]) = TupleKey(ds[j])

BothAwaited(parts) ==
  /\ parts.tsgo.st \in {"fulfilled", "rejected"}
  /\ parts.oxc.st \in {"fulfilled", "rejected"}

Reported(e) ==
  (IF e.parts.tsgo.st = "fulfilled" THEN e.parts.tsgo.diagnostics ELSE <<>>)
    \o (IF e.parts.oxc.st = "fulfilled" THEN e.parts.oxc.diagnostics ELSE <<>>)

\* C7 as stated: the merged list of an analysis has no two items with one
\* (file, line, column, message) key, has exactly one item for every key
\* either analyzer reported, and for a key both reported the item kept is
\* the checker's.
C7_OnePerKey ==
  \A k \in 1..Len(out.events) :
    LET e == out.events[k]
        merged == e.result.diagnostics
    IN e.kind \in {"merged", "resolved"} =>
         /\ \A a, b \in 1..Len(merged) :
              TupleKey(merged[a]) = TupleKey(merged[b]) => a = b
         /\ \A j \in 1..Len(Reported(e)) :
              Cardinality({m \in 1..Len(merged) :
                             TupleKey(merged[m]) = TupleKey(Reported(e)[j])}) = 1
         /\ \A m \in 1..Len(merged) :
              /\ Contains(Reported(e), merged[m])
              /\ (\E j \in 1..Len(Reported(e)) :
                    /\ TupleKey(Reported(e)[j]) = TupleKey(merged[m])
                    /\ Reported(e)[j].source = "tsgo") => merged[m].source = "tsgo"

\* Every item of the turn still dispatched can settle: a pending tsgo request
\* has its timer armed, a pending lint has its queue timer armed or a child
\* process that will close.
CanSettle(i) ==
  /\ tsgoReq[i].st \in {"queued", "sent"} => tsgoReq[i].timer
  /\ oxcReq[i].st = "queued" => oxcReq[i].qtimer
  /\ oxcReq[i].st = "running" => oxcReq[i].child \in {"running", "killed"}

\* C8: a dispatched item stays dispatched until its completion resolves, in
\* a turn of executeAnalysis, with a result for its uri and content; it is
\* never rejected, also not by shutdown; and while it is dispatched each
\* analyzer call still pending has a timer or a process that will end it.
C8_DispatchedResolve ==
  [][/\ \A k \in 1..Len(out'.events) :
          out'.events[k].dispatched =>
            /\ out'.events[k].kind = "resolved"
            /\ out'.op = "executeAnalysis"
            /\ out'.events[k].result.valid
            /\ out'.events[k].result.uri = out'.events[k].uri
            /\ out'.events[k].result.contentHash = computeHash(out'.events[k].content)
     /\ \A i \in Ids :
          /\ req[i].status = "active" =>
               \/ req'[i] = req[i]
               \/ /\ Settled(World, i)
                  /\ Cardinality(EventsFor(out', i)) = 1
                  /\ \A k \in EventsFor(out', i) : out'.events[k].dispatched
          /\ req'[i].status = "active" => CanSettle(i)']_vars

\* C8 witness: an analysis has just resolved, with no diagnostics, whose
\* tsgo request timed out and whose lint timed out too, after shutdown had
\* been called.
C8_Witness ==
  /\ shutdownCalled
  /\ \E k \in Analyses :
       /\ out.events[k].parts.tsgo.why = "timeout"
       /\ out.events[k].parts.oxc.why = "timeout"
       /\ out.events[k].result.valid
       /\ out.events[k].result.diagnostics = <<>>

\* C9: the turn of shutdown() fails every queued item once with the shutdown
\* error, undispatched, and empties the queue; it rejects every request in
\* pendingRequests and every lint in pendingQueue, clears their timers and
\* empties both; and a rejected pool request is never sent to a worker or
\* run as a process.
C9_ShutdownFailsWaiting ==
  [][/\ out'.op = "shutdown" =>
          /\ \A i \in Ids :
               req[i].status = "queued" =>
                 /\ Cardinality(EventsFor(out', i)) = 1
                 /\ \A k \in EventsFor(out', i) :
                      /\ out'.events[k].kind = "rejected"
                      /\ out'.events[k].error = ShuttingDown
                      /\ ~out'.events[k].dispatched
                 /\ req'[i].status = "free"
                 /\ tsgoReq'[i].st = "none" /\ oxcReq'[i].st = "none"
          /\ Len(out'.events) = Len(queue)
          /\ queue' = <<>>
          /\ \A k \in 1..Len(pendingRequests) :
               /\ tsgoReq'[pendingRequests[k]].st = "rejected"
               /\ ~tsgoReq'[pendingRequests[k]].timer
          /\ pendingRequests' = <<>>
          /\ \A k \in 1..Len(pendingQueue) :
               /\ oxcReq'[pendingQueue[k]].st = "rejected"
               /\ ~oxcReq'[pendingQueue[k]].timer
          /\ pendingQueue' = <<>>
     /\ \A i \in Ids :
          /\ tsgoReq[i].st = "rejected" => tsgoReq'[i].st \in {"rejected", "none"}
          /\ oxcReq[i].st = "rejected" =>
               /\ oxcReq'[i].st \in {"rejected", "none"}
               /\ oxcReq'[i].child = "none"
          /\ \A p \in Pids :
               tsgoReq'[i].st = "rejected" =>
                 /\ ~Contains(procs'[p].listeners, i)
                 /\ ~Contains(procs'[p].stdin, i)]_vars

\* C9 witness: shutdown() has just failed a queued item while one analysis
\* was running on the worker and another waited in both pools' pending
\* queues, whose two requests are now rejected.
C9_Witness ==
  /\ out.op = "shutdown"
  /\ Len(out.events) = 1
  /\ out.events[1].kind = "rejected" /\ out.events[1].error = ShuttingDown
  /\ queue = <<>> /\ pendingRequests = <<>> /\ pendingQueue = <<>>
  /\ \E i, j \in Ids :
       /\ req[i].status = "active" /\ req[j].status = "active"
       /\ tsgoReq[i].st = "sent" /\ oxcReq[i].st = "running"
       /\ tsgoReq[j].st = "rejected" /\ oxcReq[j].st = "rejected"

\* C10 as stated: once shutdown() has been called, an analyzeFile call fails
\* in its own turn with the shutdown error, its item is neither queued nor
\* dispatched to a pool, the cache is left as it was, and no item created
\* after the shutdown call ever resolves.
C10_NewCallsFail ==
  [][/\ (out'.op = "analyzeFile" /\ shutdownCalled) =>
          /\ Len(out'.events) = 1
          /\ out'.events[1].kind = "rejected"
          /\ out'.events[1].error = ShuttingDown
          /\ UNCHANGED <<req, queue, activeAnalyses, cache, tsgoReq, oxcReq,
                         pendingRequests, pendingQueue>>
     /\ \A k \in 1..Len(out'.events) :
          out'.events[k].afterShutdown =>
            /\ out'.events[k].kind = "rejected"
            /\ out'.events[k].error = ShuttingDown
            /\ cache' = cache]_vars

\* C11 as stated: of two dispatched items for one uri, the one dispatched
\* earlier settles first: no dispatched item resolves in a turn while an item
\* for its uri that was dispatched before it is still unsettled.
C11_SettleInDispatchOrder ==
  [][\A i, j \in Ids :
       (/\ req[i].status = "active" /\ req[j].status = "active"
        /\ req[i].uri = req[j].uri
        /\ Pos(inFlight, j) < Pos(inFlight, i))
         => ~(req'[i].status = "free" /\ req'[j].status = "active")]_vars

\* C12: activeAnalyses is the number of dispatched, unsettled items and never
\* exceeds maxConcurrentAnalyses; a turn changes it by the items it
\* dispatches less the dispatched items it settles, each settled item having
\* exactly one event.
C12_ActiveWithinLimit ==
  [][/\ activeAnalyses' <= config'.maxConcurrentAnalyses
     /\ activeAnalyses' = Cardinality({i \in Ids : req'[i].status = "active"})
     /\ activeAnalyses' = Len(inFlight')
     /\ activeAnalyses' =
          activeAnalyses
            + Cardinality({i \in Ids : req[i].status # "active"
                                         /\ req'[i].status = "active"})
            - Cardinality({k \in 1..Len(out'.events) : out'.events[k].dispatched})
     /\ \A i \in Ids :
          (req[i].status = "active" /\ req'[i].status # "active") =>
            Cardinality(EventsFor(out', i)) = 1]_vars

\* C12 witness: an analysis has just settled while both slots were taken and
\* an item was queued; the queued item took the slot at once and another
\* item waits.
C12_Witness ==
  /\ out.op = "executeAnalysis"
  /\ Len(out.events) = 1 /\ out.events[1].dispatched
  /\ activeAnalyses = config.maxConcurrentAnalyses
  /\ activeAnalyses = 2
  /\ filesAnalyzedCount = 1

\* ------------------------------------------------------- the worker pool
\* The elements of a sequence.
Range(s) == {s[k] : k \in 1..Len(s)}

\* The worker whose stdout carries the listener of request i, 0 when none.
WorkerOf(i) ==
  IF \E p \in Pids : i \in Range(procs[p].listeners)
    THEN CHOOSE p \in Pids : i \in Range(procs[p].listeners)
    ELSE 0

\* The timeout of the request sent to worker p fired in this step.
TimedOutOn(i, p) ==
  /\ out'.op = "tsgoTimeout"
  /\ tsgoReq[i].st = "sent" /\ tsgoReq[i].timer /\ ~tsgoReq'[i].timer
  /\ WorkerOf(i) = p

\* C13: when the timeout of a request sent to a worker fires, the request's
\* completion fails, the worker is not killed, the request's listener leaves
\* the worker's stdout, and the worker is idle again, so that it is either
\* given the oldest queued request or left not busy; no listener of a
\* settled request is attached to any worker afterwards.
C13_TimeoutFreesWorker ==
  [][\A i \in Ids, p \in Pids :
       TimedOutOn(i, p) =>
         /\ tsgoReq'[i].st = "rejected"
         /\ procs'[p].state = procs[p].state
         /\ \A q \in Pids : Stale \notin Range(procs'[q].listeners)
         /\ IF pendingRequests = <<>>
              THEN ~procs'[p].busy
              ELSE Head(pendingRequests) \in Range(procs'[p].listeners)]_vars

\* Worker p, busy with request i, exited in this step, outside shutdown.
ExitedBusyWith(i, p) ==
  /\ out'.op = "tsgoExit"
  /\ ~tsgo.shuttingDown
  /\ procs[p].busy
  /\ tsgoReq[i].st = "sent"
  /\ i \in Range(procs[p].listeners) /\ i \notin Range(procs'[p].listeners)

\* C14: when a worker exits while it is busy with a request, outside
\* shutdown, the exit handling detaches the request's listener and fails the
\* request's completion: the request is not left pending.
C14_ExitFailsInFlight ==
  [][\A i \in Ids, p \in Pids :
       ExitedBusyWith(i, p) =>
         /\ \A q \in Pids : i \notin Range(procs'[q].listeners)
         /\ tsgoReq'[i].st = "rejected"
         /\ ~tsgoReq'[i].timer]_vars

\* A worker of the running pool exited in this step: the exit is not one
\* that shutdown caused.
ExitedRunning ==
  /\ out'.op = "tsgoExit"
  /\ tsgo.started /\ ~tsgo.shuttingDown

\* Worker p has just been spawned and has been given at most the request i.
FreshWith(P, p, i) ==
  /\ P[p].state = "alive"
  /\ P[p].stdin \in {<<>>, <<i>>}
  /\ P[p].listeners = P[p].stdin
  /\ P[p].busy = (P[p].stdin # <<>>)

\* C15: when a worker of the running pool exits (also in the middle of a
\* request), the pool is back at its configured size after the exit handling,
\* with live workers only, one of them a fresh replacement; the oldest
\* queued request, if any, has been sent to the replacement, and requests
\* stay queued only while every worker is busy, so the next request finds a
\* live worker.
C15_ExitRespawns ==
  [][ExitedRunning =>
       /\ Len(pool') = config.poolSize
       /\ Cardinality(Range(pool')) = Len(pool')
       /\ \A q \in Range(pool') : procs'[q].state = "alive"
       /\ \A q \in Pids \ Range(pool') : procs'[q].state = "unused"
       /\ IF pendingRequests = <<>>
            THEN /\ pendingRequests' = <<>>
                 /\ \E p \in Range(pool') : FreshWith(procs', p, 0) /\ ~procs'[p].busy
            ELSE /\ \E p \in Range(pool') :
                      /\ FreshWith(procs', p, Head(pendingRequests))
                      /\ procs'[p].busy
                 /\ tsgoReq'[Head(pendingRequests)].st = "sent"
                 /\ pendingRequests' = Tail(pendingRequests)
       /\ pendingRequests' # <<>> => \A q \in Range(pool') : procs'[q].busy]_vars

\* A worker exited in the middle of a request while another request was
\* queued: the queued one has been sent to the replacement.
C15_Witness ==
  /\ out.op = "tsgoExit"
  /\ Len(pool) = config.poolSize
  /\ \E i, j \in Ids :
       /\ i # j
       /\ tsgoReq[i].st = "sent" /\ WorkerOf(i) = 0
       /\ tsgoReq[j].st = "sent" /\ WorkerOf(j) = pool[1]
       /\ procs[pool[1]].stdin = <<j>>

\* The requests sent to worker p that are still unsettled: each keeps its
\* listener on the worker's stdout and its id there until it settles.
InFlightOn(p) ==
  {i \in Ids : tsgoReq[i].st = "sent" /\ i \in Range(procs[p].listeners)}

\* C16: in every state a worker is busy exactly when one request sent to it
\* is still unsettled, and no worker has two unsettled requests or two
\* listeners.
C16_BusyIffOneInFlight ==
  \A p \in Range(pool) :
    /\ procs[p].busy <=> Cardinality(InFlightOn(p)) = 1
    /\ Cardinality(InFlightOn(p)) <= 1
    /\ Len(procs[p].listeners) <= 1

\* C17: a request that a worker's line has settled was settled by the
\* worker's answer to that request, never by the answer to a health ping or
\* to another request, and never by a line printed while the worker was idle.
C17_OwnResponse ==
  \A i \in Ids :
    tsgoReq[i].st = "resolved" => tsgoReq[i].response.for = i

\* ------------------------------------------------------------- timeouts
\* The timeout of the running lint i fired in this step.
LintTimedOut(i) ==
  /\ out'.op = "oxcTimeout"
  /\ oxcReq[i].st = "running" /\ oxcReq[i].timer
  /\ oxcReq'[i].why = "timeout"

\* The lints that left the pending queue for a slot in this step.
LintsStarted ==
  {j \in Ids : oxcReq[j].st = "queued" /\ oxcReq'[j].st = "running"}

\* C18: the timeout of a running lint kills the lint's child process and
\* gives its slot back (the oldest queued lint, if any, takes it at once);
\* the timeout of a checker request changes no worker process: none is
\* killed, none leaves the pool, no kill timer is armed.
C18_TimeoutKillsLinterOnly ==
  [][/\ \A i \in Ids :
          LintTimedOut(i) =>
            /\ oxcReq'[i].child = "killed"
            /\ oxcReq'[i].st = "fulfilled" /\ oxcReq'[i].diagnostics = <<>>
            /\ activeLints' = activeLints - 1 + Cardinality(LintsStarted)
            /\ IF pendingQueue = <<>>
                 THEN activeLints' = activeLints - 1
                 ELSE LintsStarted = {Head(pendingQueue)}
     /\ out'.op = "tsgoTimeout" =>
          /\ pool' = pool
          /\ \A p \in Pids :
               /\ procs'[p].state = procs[p].state
               /\ procs'[p].killWait = procs[p].killWait
               /\ procs'[p].termTimer = procs[p].termTimer]_vars

\* Both timeouts of one analysis have fired: its lint child is killed, its
\* checker worker is alive, in the pool, with the request's listener on it.
C18_Witness ==
  /\ out.op = "oxcTimeout"
  /\ \E i \in Ids :
       /\ oxcReq[i].child = "killed" /\ oxcReq[i].why = "timeout"
       /\ tsgoReq[i].st = "rejected"
  /\ \E p \in Range(pool) :
       procs[p].state = "alive" /\ Stale \in Range(procs[p].listeners)

\* ------------------------------------------------- the pending queue
\* The requests handed to dispatch() in this step.
NewRequests ==
  {i \in Ids : tsgoReq[i].st = "none" /\ tsgoReq'[i].st \in {"sent", "queued"}}

\* The requests that left the pending queue for a worker in this step.
Unqueued ==
  {i \in Ids : tsgoReq[i].st = "queued" /\ tsgoReq'[i].st = "sent"}

\* The workers of the pool that are not busy.
IdleWorkers == {p \in Range(pool) : ~procs[p].busy}

\* s is t without its first n elements.
DropsPrefix(s, t, n) ==
  /\ n <= Len(t)
  /\ s = SubSeq(t, n + 1, Len(t))

\* C19: a request handed to dispatch() is sent at once when a worker is idle
\* and is appended to the pending queue only when every worker is busy;
\* requests leave the queue for a worker from its head, in the order they
\* were queued, and only in a step that frees or replaces a worker (while
\* requests are queued every worker is busy); a request whose timeout fires
\* while it is queued leaves the queue, fails, and is never sent.
C19_QueueIsFifo ==
  [][/\ \A i \in NewRequests :
          /\ tsgoReq'[i].st = "sent" =>
               \E p \in IdleWorkers : Range(procs'[p].listeners) = {i}
          /\ tsgoReq'[i].st = "queued" =>
               /\ \A p \in Range(pool') : procs'[p].busy
               /\ Cardinality({j \in NewRequests : tsgoReq'[j].st = "sent"})
                    = Cardinality(IdleWorkers)
               /\ pendingRequests' # <<>>
               /\ \A j \in Range(pendingRequests) : Earlier(pendingRequests', j, i)
     /\ pendingRequests # <<>> => \A p \in Range(pool) : procs[p].busy
     /\ Unqueued # {} =>
          /\ Unqueued = {pendingRequests[k] : k \in 1..Cardinality(Unqueued)}
          /\ DropsPrefix(pendingRequests', pendingRequests, Cardinality(Unqueued))
          /\ \A i \in Unqueued : \E p \in Range(pool') :
               /\ Range(procs'[p].listeners) = {i}
               /\ procs'[p].stdin # <<>>
               /\ procs'[p].stdin[Len(procs'[p].stdin)] = i
     /\ \A i \in Ids :
          /\ (out'.op = "tsgoTimeout" /\ tsgoReq[i].st = "queued"
                 /\ tsgoReq[i].timer /\ ~tsgoReq'[i].timer) =>
               /\ tsgoReq'[i].st = "rejected"
               /\ pendingRequests' = RemoveId(pendingRequests, i)
               /\ i \notin Range(pendingRequests')
               /\ \A p \in Pids : procs'[p] = procs[p]
          /\ tsgoReq[i].st = "rejected" => tsgoReq'[i].st \in {"rejected", "none"}
          /\ (tsgoReq'[i].st = "queued") <=> (i \in Range(pendingRequests'))]_vars

\* The first request was sent and timed out, leaving the only worker busy;
\* the timeout of the second fired while it was queued; the third is still
\* queued.
C19_Witness ==
  /\ out.op = "tsgoTimeout"
  /\ Len(pool) = 1 /\ procs[pool[1]].stdin = <<Stale>>
  /\ filesAnalyzedCount = 1
  /\ Len(inFlight) = 2
  /\ tsgoReq[inFlight[1]].st = "rejected"
  /\ pendingRequests = <<inFlight[2]>>

\* ------------------------------------------------------------- shutdown
\* TsgoIntegration.shutdown() ran up to its await in this step.
PoolShutdownBegins ==
  /\ out'.op = "shutdown"
  /\ tsgo.started /\ ~tsgo.shuttingDown

\* Worker p was sent a signal in this step: the SIGTERM timer fired, or the
\* force-kill timer did.
Sigtermed(p) == out'.op = "tsgoSigterm" /\ procs[p].termTimer /\ ~procs'[p].termTimer
Sigkilled(p) == out'.op = "tsgoForceKill" /\ procs[p].killWait /\ ~procs'[p].killWait

\* C20: shutdown() of the pool writes the shutdown request to every worker
\* and signals none in that step; a worker gets SIGTERM only in a later step,
\* from the timer armed after the request was written; it gets SIGKILL only
\* from the force-kill timer, after the SIGTERM timer has fired and while its
\* exit has not been seen; no other step stops a worker; shutdown()
\* completes only when every worker has exited or has been force-killed.
C20_GracefulThenForced ==
  [][/\ PoolShutdownBegins =>
          /\ pool' = pool
          /\ \A p \in Range(pool) :
               /\ procs'[p].stdin = Append(procs[p].stdin, ShutdownMsg)
               /\ procs'[p].state = "alive"
               /\ procs'[p].termTimer /\ procs'[p].killWait
     /\ \A p \in Pids :
          /\ Sigtermed(p) =>
               /\ tsgo.shuttingDown
               /\ procs[p].state = "alive" /\ procs[p].killWait
               /\ ShutdownMsg \in Range(procs[p].stdin)
          /\ Sigkilled(p) =>
               /\ tsgo.shuttingDown
               /\ procs[p].state = "alive" /\ procs'[p].state = "dead"
               /\ ~procs[p].termTimer
               /\ ShutdownMsg \in Range(procs[p].stdin)
          /\ (procs[p].state = "alive" /\ procs'[p].state = "dead") => Sigkilled(p)
          /\ (procs[p].termTimer /\ ~procs'[p].termTimer) =>
               Sigtermed(p) \/ out'.op = "tsgoExit"
          /\ (~procs[p].termTimer /\ procs'[p].termTimer) => PoolShutdownBegins
     /\ out'.op = "shutdownDone" =>
          /\ tsgo.shuttingDown /\ ~tsgo'.shuttingDown /\ ~tsgo'.started
          /\ \A p \in Pids : procs[p].state \in {"unused", "dead"}
          /\ \A p \in Pids : ~procs[p].killWait]_vars

\* shutdown() has completed after one worker exited on its own and the other
\* was force-killed.
C20_Witness ==
  /\ out.op = "shutdownDone"
  /\ \E p, q \in Pids : procs[p].state = "dead" /\ procs[q].state = "unused"
  /\ \A p \in Pids : ~procs[p].termTimer

\* ------------------------------------------------------ the lint slots
\* The lints whose executeLint is between its activeLints++ and its finally.
RunningLints(R) == {i \in Ids : R[i].st = "running"}

\* The lint requests made in this step.
NewLints == {i \in Ids : oxcReq[i].st = "none" /\ oxcReq'[i].st \in {"running", "queued"}}

\* The running lints that settled in this step.
LintsSettledNow == {i \in Ids : oxcReq[i].st = "running" /\ oxcReq'[i].st # "running"}

\* C21: activeLints never exceeds maxConcurrency and counts the lints in
\* progress, so it is 0 when all have settled; a lint requested while every
\* slot is taken is queued and no child is spawned for it; every started
\* lint gives its slot back once, in the step in which it settles, however
\* it settles.
C21_LintSlots ==
  [][/\ activeLints' <= config'.maxConcurrency
     /\ activeLints' = Cardinality(RunningLints(oxcReq'))
     /\ \A i \in NewLints :
          activeLints = config.maxConcurrency =>
            /\ oxcReq'[i].st = "queued" /\ oxcReq'[i].child = "none"
            /\ i \in Range(pendingQueue')
     /\ activeLints' = activeLints
          + Cardinality({i \in Ids : oxcReq[i].st # "running" /\ oxcReq'[i].st = "running"})
          - Cardinality(LintsSettledNow)
     /\ \A i \in LintsSettledNow : oxcReq'[i].st = "fulfilled"]_vars

\* A lint was requested while the only slot was taken: it is queued.
C21_Witness ==
  /\ out.op = "analyzeFile"
  /\ activeLints = config.maxConcurrency
  /\ \E i, j \in Ids :
       /\ oxcReq[i].st = "running" /\ oxcReq[i].child = "running"
       /\ oxcReq[j].st = "queued" /\ oxcReq[j].child = "none"
       /\ pendingQueue = <<j>>

\* The queue-wait timer of lint i fired in this step.
QueueTimedOut(i) ==
  /\ out'.op = "oxcQueueTimeout"
  /\ oxcReq[i].qtimer /\ ~oxcReq'[i].qtimer

\* C22: when the queue-wait timer of a lint fires, the lint is still queued;
\* it leaves the queue and is rejected, no child is spawned for it, then or
\* later; a lint taken from the queue is the head of the queue and its
\* queue-wait timer is cleared in the same step, so the timer is never armed
\* for a lint that is not queued; a settled lint is not settled again.
C22_QueueWaitTimeout ==
  [][\A i \in Ids :
       /\ QueueTimedOut(i) =>
            /\ oxcReq[i].st = "queued" /\ oxcReq'[i].st = "rejected"
            /\ i \in Range(pendingQueue)
            /\ pendingQueue' = RemoveId(pendingQueue, i)
            /\ oxcReq'[i].child = "none"
            /\ activeLints' = activeLints
       /\ oxcReq[i].st = "rejected" =>
            /\ oxcReq'[i].st \in {"rejected", "none"}
            /\ oxcReq'[i].child = "none"
       /\ (oxcReq[i].st = "queued" /\ oxcReq'[i].st = "running") =>
            /\ i = Head(pendingQueue)
            /\ oxcReq[i].qtimer /\ ~oxcReq'[i].qtimer
       /\ oxcReq'[i].qtimer =>
            oxcReq'[i].st = "queued" /\ i \in Range(pendingQueue')
       /\ oxcReq[i].st = "fulfilled" => oxcReq'[i].st \in {"fulfilled", "none"}]_vars

\* The first lint has ended, the second was taken from the queue and is
\* running, and the queue-wait timer of the third has fired.
C22_Witness ==
  /\ out.op = "oxcQueueTimeout"
  /\ filesAnalyzedCount = 1
  /\ Len(inFlight) = 2
  /\ oxcReq[inFlight[1]].st = "running"
  /\ oxcReq[inFlight[2]].st = "rejected" /\ oxcReq[inFlight[2]].child = "none"
  /\ pendingQueue = <<>> /\ activeLints = 1

\* --------------------------------------------------- lint exit codes
\* The diagnostics of the linter, as a list of the given length.
LinterDiagnostics(ds, n) ==
  /\ Len(ds) = n
  /\ \A k \in 1..Len(ds) : ds[k].source = "oxc"

\* C23: when the child of a running lint closes, exit code 0 or 1 makes the
\* lint succeed with its stdout parsed (exit code 1 with two findings gives
\* two diagnostics of the linter); a higher exit code (or none, after a
\* signal) with empty stdout makes it fail and contribute no diagnostics; a
\* higher exit code with stdout makes it succeed with the stdout parsed.
\* The analysis of the file then resolves, without error, with the lint's
\* diagnostics deduplicated (both of them, for the two findings).
C23_ExitCodes ==
  [][\A i \in Ids, r \in LintRuns :
       (oxcReq[i].st = "running" /\ OxcClose(i, r.code, r.stdout)) =>
         /\ oxcReq'[i].st = "fulfilled"
         /\ r.code \in {0, 1} =>
              /\ oxcReq'[i].why = "parsed"
              /\ LinterDiagnostics(oxcReq'[i].diagnostics, Len(r.stdout.items))
         /\ (r.code = 1 /\ r.stdout = TwoFindings) =>
              /\ LinterDiagnostics(oxcReq'[i].diagnostics, 2)
              /\ oxcReq'[i].diagnostics[1] # oxcReq'[i].diagnostics[2]
         /\ (r.code \notin {0, 1} /\ r.stdout = EmptyStdout) =>
              /\ oxcReq'[i].why = "exit"
              /\ oxcReq'[i].diagnostics = <<>>
         /\ (r.code \notin {0, 1} /\ r.stdout # EmptyStdout) =>
              /\ oxcReq'[i].why = "parsed"
              /\ LinterDiagnostics(oxcReq'[i].diagnostics, Len(r.stdout.items))
     /\ \A k \in 1..Len(out'.events) :
          LET e == out'.events[k]
          IN (e.dispatched /\ oxcReq[e.slot].st = "fulfilled") =>
               /\ e.kind = "resolved" /\ e.error = ""
               /\ e.parts.oxc.st = "fulfilled"
               /\ e.result.diagnostics
                    = deduplicateDiagnostics(oxcReq[e.slot].diagnostics)
               /\ Len(oxcReq[e.slot].diagnostics) = 2 =>
                    LinterDiagnostics(e.result.diagnostics, 2)]_vars

\* A lint child has closed with exit code 1 and two findings (the only run
\* with two findings), and the lint has succeeded with two diagnostics.
C23_Witness ==
  /\ out.op = "oxcClose"
  /\ \E i \in Ids :
       /\ oxcReq[i].st = "fulfilled" /\ oxcReq[i].why = "parsed"
       /\ oxcReq[i].child = "closed"
       /\ LinterDiagnostics(oxcReq[i].diagnostics, 2)

\* The entry the cache holds for uri, if it holds one with this content hash
\* that has not expired; otherwise the placeholder.
HeldEntry(c, uri, contentHash, t) ==
  LET i == EntryIndex(c.entries, uri, 1)
  IN IF i # 0 /\ c.entries[i].contentHash = contentHash
          /\ t - c.entries[i].createdAt <= c.ttlMs
       THEN c.entries[i].data
     ELSE NoResult

\* Every dispatched analysis that resolved in the turn just taken left its
\* result in the cache under its uri and the hash of its content, stamped
\* with the time of the turn (fits: provided one entry of its size fits).
StoredOnResolve(fits) ==
  \A k \in 1..Len(out'.events) :
    (/\ out'.events[k].kind = "resolved" /\ out'.events[k].dispatched
     /\ fits => /\ cache.maxEntries >= 1
                /\ estimateSize(out'.events[k].result) <= cache.maxSizeBytes) =>
      \E e \in 1..Len(cache'.entries) :
        /\ cache'.entries[e].uri = out'.events[k].uri
        /\ cache'.entries[e].contentHash = computeHash(out'.events[k].content)
        /\ cache'.entries[e].data = out'.events[k].result
        /\ cache'.entries[e].createdAt = now'

\* The call just made was answered in its own turn, by no analyzer, with the
\* given result marked cached.
ServedFromStore(result) ==
  /\ Len(out'.events) = 1
  /\ out'.events[1].kind = "resolved"
  /\ ~out'.events[1].dispatched
  /\ out'.events[1].result = [result EXCEPT !.cached = TRUE]
  /\ UNCHANGED <<req, queue, inFlight, activeAnalyses, procs, pendingRequests,
                 tsgoReq, oxcReq, activeLints>>

\* C24 as stated: with the cache enabled, every dispatched analysis stores
\* its merged result under (uri, hash(content)) in the turn that resolves it,
\* forced or not and also when the result is empty because the analyzer
\* timed out; and an unforced call for a uri with the content of the last
\* analysis of that uri to finish is answered with that result, cached = TRUE,
\* and no analyzer is invoked.
C24_StoredThenServed ==
  [][config.cache =>
       /\ StoredOnResolve(FALSE)
       /\ (/\ out'.op = "analyzeFile" /\ ~out'.force
           /\ completed[out'.uri].result.valid
           /\ completed[out'.uri].result.contentHash = computeHash(out'.content)) =>
             ServedFromStore(completed[out'.uri].result)]_vars

\* C24 (amended): the result is stored as stated, provided one entry of its
\* size fits the limits of the cache; and an unforced call for a uri and
\* content is answered with the stored result, cached = TRUE, and no analyzer
\* is invoked, provided the entry is still held and no older than the TTL.
C24_StoredThenServedWhileHeld ==
  [][config.cache =>
       /\ StoredOnResolve(TRUE)
       /\ (/\ out'.op = "analyzeFile" /\ ~out'.force
           /\ HeldEntry(cache, out'.uri, computeHash(out'.content), now).valid) =>
             ServedFromStore(HeldEntry(cache, out'.uri, computeHash(out'.content), now))]_vars

\* C24 witness: a forced analysis of u1 whose request timed out resolved with
\* an empty result, and an unforced call with the same content has just been
\* answered with that result from the cache.
C24_Witness ==
  /\ out.op = "analyzeFile" /\ out.uri = "u1" /\ ~out.force
  /\ Len(out.events) = 1
  /\ out.events[1].kind = "resolved" /\ ~out.events[1].dispatched
  /\ out.events[1].result.cached
  /\ out.events[1].result.diagnostics = <<>>
  /\ completed["u1"].result.diagnostics = <<>>
  /\ cache.hits = 1 /\ cache.misses = 0
  /\ Len(cache.entries) = 1
  /\ cache.entries[1].data = completed["u1"].result

\* The sum of the sizes recorded in the entries.
RECURSIVE SumSizes(_)
SumSizes(entries) ==
  IF entries = <<>> THEN 0 ELSE Head(entries).sizeBytes + SumSizes(Tail(entries))

\* C25: after every FileCache operation, totalSizeBytes is the sum of the
\* sizes of the entries held (each the estimated size of its value, one entry
\* per key), the number of entries is at most maxEntries and totalSizeBytes
\* is at most maxSizeBytes.
C25_CacheWithinLimits ==
  /\ cache.totalSizeBytes = SumSizes(cache.entries)
  /\ \A k \in 1..Len(cache.entries) :
       /\ cache.entries[k].sizeBytes = estimateSize(cache.entries[k].data)
       /\ \A l \in 1..Len(cache.entries) :
            cache.entries[k].uri = cache.entries[l].uri => k = l
  /\ Len(cache.entries) <= cache.maxEntries
  /\ cache.totalSizeBytes <= cache.maxSizeBytes

\* C25 witness: a set has just filled a cache of two entries and 4 bytes to
\* both limits, and entries have been evicted.
C25_Witness ==
  /\ out.op = "set"
  /\ cache.maxEntries = 2 /\ cache.maxSizeBytes = 4
  /\ Len(cache.entries) = 2 /\ cache.totalSizeBytes = 4
  /\ cache.evictions = 2

\* The entries of a cache for keys other than uri, in order.
OtherEntries(c, uri) == SelectSeq(c.entries, LAMBDA e : e.uri # uri)

\* C26: FileCache.get returns the stored value exactly when an entry exists
\* for the uri, its content hash equals the one passed and its age is at most
\* the TTL; the hit is counted and refreshes the entry's last access.  In
\* every other case it returns nothing and counts a miss, and after it the
\* cache holds no entry for the uri (an entry of another hash or an expired
\* one has been deleted, so a get with the original hash misses too).  The
\* entries of other keys are untouched.
C26_GetHitsIffLive ==
  [][out'.op = "get" =>
       LET uri == out'.uri
           h == computeHash(out'.content)
           i == EntryIndex(cache.entries, uri, 1)
           live == /\ i # 0
                   /\ cache.entries[i].contentHash = h
                   /\ now - cache.entries[i].createdAt <= cache.ttlMs
           value == out'.events[1].result
       IN /\ Len(out'.events) = 1
          /\ value.valid <=> live
          /\ live =>
               /\ value = cache.entries[i].data
               /\ cache'.entries = [cache.entries EXCEPT ![i].lastAccessedAt = now]
               /\ cache'.hits = cache.hits + 1 /\ cache'.misses = cache.misses
               /\ cache'.totalSizeBytes = cache.totalSizeBytes
          /\ ~live =>
               /\ EntryIndex(cache'.entries, uri, 1) = 0
               /\ CacheGet(cache', uri, h, now).value = NoResult
               /\ \A content \in Contents :
                    ~CacheGet(cache', uri, computeHash(content), now).value.valid
               /\ cache'.misses = cache.misses + 1 /\ cache'.hits = cache.hits
          /\ OtherEntries(cache', uri) = OtherEntries(cache, uri)
          /\ cache'.evictions = cache.evictions]_vars

\* C26 witness: a get one millisecond after the set, within the TTL, has
\* just returned the stored value and refreshed its last access; one earlier
\* get missed.
C26_Witness ==
  /\ out.op = "get"
  /\ Len(out.events) = 1 /\ out.events[1].result.valid
  /\ out.events[1].result.diagnostics # <<>>
  /\ cache.hits = 1 /\ cache.misses = 1 /\ cache.totalSizeBytes = 4
  /\ \E k \in 1..Len(cache.entries) :
       /\ cache.entries[k].uri = out.uri
       /\ cache.entries[k].data = out.events[1].result
       /\ cache.entries[k].createdAt = 0 /\ cache.entries[k].lastAccessedAt = 1

\* C27: with a TTL of 0 ms every FileCache.get returns nothing, a get at the
\* clock reading of the set that stored the entry included.
C27_ZeroTtlNeverValid ==
  [][(out'.op = "get" /\ cache.ttlMs = 0) =>
       /\ Len(out'.events) = 1
       /\ ~out'.events[1].result.valid
       /\ cache'.hits = cache.hits]_vars

\* The entries as FileCache.set has them before it calls evictIfNeeded: the
\* old entry of the uri removed, the new one appended.
Inserted(c, uri, contentHash, data, t) ==
  Append(deleteEntry(c, uri).entries,
         [uri |-> uri, data |-> data, contentHash |-> contentHash,
          createdAt |-> t, lastAccessedAt |-> t, sizeBytes |-> estimateSize(data)])

\* The set just made evicted only when a limit was exceeded, evicted no entry
\* with a later last access than one it kept, kept the other entries in
\* order and counted each eviction; and a set for a second uri into a cache
\* of room for one entry left that entry alone and counted one eviction
\* (fits: provided its value fits maxSizeBytes).
SetEvictsOldest(fits) ==
  LET data == out'.events[1].result
      ins == Inserted(cache, out'.uri, computeHash(out'.content), data, now)
      kept == {k \in 1..Len(ins) : EntryIndex(cache'.entries, ins[k].uri, 1) # 0}
      evicted == (1..Len(ins)) \ kept
  IN /\ cache'.entries = SelectSeq(ins, LAMBDA e : EntryIndex(cache'.entries, e.uri, 1) # 0)
     /\ \A k \in evicted, l \in kept : ins[k].lastAccessedAt <= ins[l].lastAccessedAt
     /\ cache'.evictions = cache.evictions + Cardinality(evicted)
     /\ evicted # {} =>
          \/ Len(ins) > cache.maxEntries
          \/ SumSizes(ins) > cache.maxSizeBytes
     /\ (/\ cache.maxEntries = 1
         /\ Len(cache.entries) = 1 /\ cache.entries[1].uri # out'.uri
         /\ cache.evictions = 0
         /\ fits => estimateSize(data) <= cache.maxSizeBytes) =>
          /\ Len(cache'.entries) = 1
          /\ cache'.entries[1].uri = out'.uri /\ cache'.entries[1].data = data
          /\ cache'.evictions = 1

\* C28 as stated: a set that exceeds maxEntries or maxSizeBytes evicts
\* entries of minimum last access and counts each; with maxEntries = 1, after
\* sets for two distinct uris only the second remains and the counter is 1.
C28_EvictsLeastRecent ==
  [][out'.op = "set" => SetEvictsOldest(FALSE)]_vars

\* C28 (amended): the same, the case of maxEntries = 1 holding when the
\* second value is no larger than maxSizeBytes.
C28_EvictsLeastRecentThatFits ==
  [][out'.op = "set" => SetEvictsOldest(TRUE)]_vars

\* C28 witness: in a cache of room for two entries, the entry set first was
\* read one millisecond later and has survived the set of a third key, which
\* evicted the entry set second.
C28_Witness ==
  /\ out.op = "set"
  /\ cache.maxEntries = 2 /\ cache.evictions = 1 /\ cache.hits = 1
  /\ Len(cache.entries) = 2
  /\ cache.entries[1].uri = "u1"
  /\ cache.entries[1].createdAt = 0 /\ cache.entries[1].lastAccessedAt = 1
  /\ cache.entries[2].uri = "u3" /\ cache.entries[2].createdAt = 1

\* Every statistic of the cache is zero.
ZeroStats(c) ==
  /\ getStats(c).totalEntries = 0
  /\ getStats(c).totalSizeBytes = 0
  /\ getStats(c).hitRate[1] = 0
  /\ getStats(c).missRate[1] = 0
  /\ getStats(c).evictionCount = 0

\* C29: after clear(), whatever the cache held and counted, getStats reports
\* zero entries, bytes, hit rate, miss rate and evictions, and a get for any
\* uri and hash misses; and while no set is made an empty cache stays empty
\* and every get on it misses.
C29_ClearResets ==
  [][/\ out'.op = "clear" =>
          /\ ZeroStats(cache')
          /\ \A uri \in CacheKeys, content \in Contents :
               ~CacheGet(cache', uri, computeHash(content), now').value.valid
     /\ (cache.entries = <<>> /\ out'.op # "set") =>
          /\ cache'.entries = <<>> /\ cache'.totalSizeBytes = 0
          /\ out'.op = "get" =>
               /\ ~out'.events[1].result.valid
               /\ cache'.misses = cache.misses + 1 /\ cache'.hits = cache.hits]_vars

\* C29 witness: clear() has just run, on a cache that held entries or had
\* counted (it is called in no other state), and every statistic is zero.
C29_Witness ==
  /\ out.op = "clear"
  /\ ZeroStats(cache)
  /\ getStats(cache).hitRate = <<0, 1>> /\ getStats(cache).missRate = <<0, 1>>
  /\ cache.entries = <<>>

\* The pairs <<a, b>> with b in dependsOn[a], and those with a in
\* dependedOnBy[b].
Forward(T) ==
  {e \in CacheKeys \X CacheKeys :
     e[1] \in DOMAIN T.dependsOn /\ e[2] \in T.dependsOn[e[1]]}
Reverse(T) ==
  {e \in CacheKeys \X CacheKeys :
     e[2] \in DOMAIN T.dependedOnBy /\ e[1] \in T.dependedOnBy[e[2]]}

\* C30: after every addDependency, clearDependencies,
\* invalidateWithDependents and clear of the TypeCache, b is in dependsOn[a]
\* exactly when a is in dependedOnBy[b].  addDependency(from, to) adds the
\* edge and nothing else, and changes nothing when the edge is there already;
\* clearDependencies(from) removes the edges out of from, their reverse edges
\* with them, and no other; invalidateWithDependents leaves the graph alone;
\* clear empties it.
C30_EdgesMirrored ==
  [][/\ Forward(typeCache') = Reverse(typeCache')
     /\ out'.op = "addDependency" =>
          /\ Forward(typeCache') = Forward(typeCache) \cup {<<out'.uri, out'.content>>}
          /\ <<out'.uri, out'.content>> \in Forward(typeCache) => typeCache' = typeCache
     /\ out'.op = "clearDependencies" =>
          /\ Forward(typeCache') = {e \in Forward(typeCache) : e[1] # out'.uri}
          /\ out'.uri \notin DOMAIN typeCache'.dependsOn
          /\ \A b \in DOMAIN typeCache'.dependedOnBy :
               out'.uri \notin typeCache'.dependedOnBy[b]
     /\ out'.op = "invalidateWithDependents" => typeCache' = typeCache
     /\ out'.op = "typeCacheClear" => Forward(typeCache') = {}]_vars

\* C30 witness: addDependency(u1, u1) has just put a self-edge into a graph
\* in which u1 and u2 depend on each other; every edge has its reverse edge.
C30_Witness ==
  /\ out.op = "addDependency" /\ out.uri = "u1" /\ out.content = "u1"
  /\ Forward(typeCache) = {<<"u1", "u1">>, <<"u1", "u2">>, <<"u2", "u1">>}
  /\ Reverse(typeCache) = Forward(typeCache)
  /\ typeCache.dependedOnBy["u1"] = {"u1", "u2"}
  /\ DOMAIN typeCache.dependsOn = {"u1", "u2"}

\* The uris from which a uri of R is reached in at most n steps along
\* dependsOn edges: they depend, directly or not, on a uri of R.
RECURSIVE Dependents(_, _, _)
Dependents(T, R, n) ==
  IF n = 0 THEN R
  ELSE Dependents(T, R \cup {e[1] : e \in {d \in Reverse(T) : d[2] \in R}}, n - 1)

\* C31: invalidateWithDependents(u) ends on every graph, cycles and
\* self-edges included; it returns, each once, exactly the uris that reach u
\* along dependency edges, u among them; afterwards the cache holds no entry
\* for any of them, and the entries of the other uris are as before.
C31_CascadeInvalidates ==
  [][out'.op = "invalidateWithDependents" =>
       LET returned == {out'.events[k].uri : k \in 1..Len(out'.events)}
           reach == Dependents(typeCache, {out'.uri}, Cardinality(CacheKeys))
       IN /\ returned = reach
          /\ out'.uri \in returned
          /\ Len(out'.events) = Cardinality(returned)
          /\ \A u \in returned : EntryIndex(cache'.entries, u, 1) = 0
          /\ cache'.entries = SelectSeq(cache.entries, LAMBDA e : e.uri \notin reach)
          /\ cache'.totalSizeBytes = SumSizes(cache'.entries)]_vars

\* C31 witness: u1 and u2 depend on each other and u2 on itself, and u1
\* depends on u3; invalidateWithDependents(u2) has just returned u2 and u1,
\* and the cache holds the entry of u3 alone.
C31_Witness ==
  /\ out.op = "invalidateWithDependents" /\ out.uri = "u2"
  /\ {out.events[k].uri : k \in 1..Len(out.events)} = {"u1", "u2"}
  /\ Forward(typeCache) = {<<"u1", "u2">>, <<"u2", "u1">>, <<"u2", "u2">>, <<"u1", "u3">>}
  /\ Len(cache.entries) = 1 /\ cache.entries[1].uri = "u3"

\* The suggested depth of the first pattern of KNOWN_PATTERNS that accepts
\* the name, none when no pattern accepts it.
FirstSuggested(typeName) ==
  LET hits == {k \in 1..Len(KNOWN_PATTERNS) : typeName \in KNOWN_PATTERNS[k].accepts}
  IN IF hits = {} THEN {}
     ELSE {KNOWN_PATTERNS[CHOOSE k \in hits : \A l \in hits : k <= l].suggestedMaxDepth}

\* C32: checkExpansion(name, depth) returns truncated = true exactly when
\* depth >= effectiveMax, the smaller of the configured maximum depth and the
\* suggested depth of the first known pattern that accepts the name (the
\* configured maximum when none does); it adds exactly 1 to the truncation
\* counter when truncated and leaves the counter alone otherwise.
C32_TruncatesAtEffectiveMax ==
  [][out'.op = "checkExpansion" =>
       LET info == out'.events[1].result
           limits == {guard.maxTypeDepth} \cup FirstSuggested(out'.uri)
           effectiveMax == CHOOSE m \in limits : \A n \in limits : m <= n
       IN /\ Len(out'.events) = 1
          /\ info.typeName = out'.uri /\ info.depth = out'.priority
          /\ info.maxDepth = effectiveMax
          /\ info.truncated <=> out'.priority >= effectiveMax
          /\ guard'.truncationCount =
               guard.truncationCount + (IF info.truncated THEN 1 ELSE 0)
          /\ guard'.maxTypeDepth = guard.maxTypeDepth]_vars

\* C32 witness: under a configured maximum of 50, ZodType<ZodType> has just
\* been checked at depth 35, the suggested depth of zod-schema, the first of
\* the two patterns that accept it, and was truncated; it was the second
\* truncation.
C32_Witness ==
  /\ out.op = "checkExpansion" /\ out.uri = "ZodType<ZodType>" /\ out.priority = 35
  /\ guard.maxTypeDepth = 50
  /\ out.events[1].result.truncated /\ out.events[1].result.maxDepth = 35
  /\ guard.truncationCount = 2

\* The root of the tree a span was started in.
RECURSIVE RootOf(_)
RootOf(id) == IF tracer.parents[id] = 0 THEN id ELSE RootOf(tracer.parents[id])

\* C33: the root history never holds more than maxHistory ids, and the
\* completed map never holds a span whose root is no longer in the history,
\* whether or not the root or a descendant was still active when the root
\* was dropped.
C33_CompletedWithinHistory ==
  /\ Len(tracer.rootHistory) <= tracer.maxHistory
  /\ \A id \in DOMAIN tracer.completedSpans :
       \E k \in 1..Len(tracer.rootHistory) : tracer.rootHistory[k] = RootOf(id)

\* C34: after every step each span id is in at most one of the active and
\* the completed map, every completed span has endTime >= startTime, no
\* span is listed twice as a child or under a span that is not its parent,
\* and the slow-span callback has been
\* called at most once for a span.  endSpan of an active id moves the span
\* to the completed map with endTime = now, links it once under its parent
\* when the parent is in either map, and calls the callback once when the
\* duration exceeds the threshold; endSpan of an id that is unknown or
\* already ended changes nothing.
C34_EndSpanOnce ==
  [][LET T == tracer'
         spans == [id \in DOMAIN T.activeSpans \cup DOMAIN T.completedSpans |->
                     IF id \in DOMAIN T.activeSpans THEN T.activeSpans[id]
                     ELSE T.completedSpans[id]]
         id == out'.priority
     IN /\ DOMAIN T.activeSpans \cap DOMAIN T.completedSpans = {}
        /\ \A c \in DOMAIN T.completedSpans :
             T.completedSpans[c].endTime >= T.completedSpans[c].startTime
        /\ \A p \in DOMAIN spans : \A k, l \in 1..Len(spans[p].children) :
             /\ T.parents[spans[p].children[k]] = p
             /\ spans[p].children[k] = spans[p].children[l] => k = l
        /\ \A k, l \in 1..Len(T.slow) : T.slow[k] = T.slow[l] => k = l
        /\ (out'.op = "endSpan" /\ id \in DOMAIN tracer.activeSpans) =>
             /\ id \in DOMAIN T.completedSpans /\ id \notin DOMAIN T.activeSpans
             /\ T.completedSpans[id].endTime = now
             /\ T.completedSpans[id].startTime = tracer.activeSpans[id].startTime
             /\ tracer.parents[id] \in DOMAIN spans =>
                  LET children == spans[tracer.parents[id]].children
                  IN children # <<>> /\ children[Len(children)] = id
             /\ T.slow = IF now - tracer.activeSpans[id].startTime > tracer.slowThresholdMs
                            THEN Append(tracer.slow, id) ELSE tracer.slow
             /\ T.rootHistory = tracer.rootHistory
        /\ (out'.op = "endSpan" /\ id \notin DOMAIN tracer.activeSpans) =>
             tracer' = tracer]_vars

\* C34 witness: span 2, started under span 1, has just been ended after its
\* parent, one millisecond after its start: both are completed, span 2 is
\* the one child of span 1, and the slow-span callback was called for it.
C34_Witness ==
  /\ out.op = "endSpan" /\ out.priority = 2
  /\ DOMAIN tracer.completedSpans = {1, 2} /\ DOMAIN tracer.activeSpans = {}
  /\ tracer.completedSpans[1].children = <<2>>
  /\ tracer.completedSpans[2].endTime = 1 /\ tracer.completedSpans[2].startTime = 0
  /\ tracer.slow = <<2>>

\* C35: after n pushes into a ring buffer of capacity k its size is
\* min(n, k) and toArray returns the entries max(0, n-k)+1 .. n (the first
\* append being entry 1) in the order they were appended.
C35_RingKeepsNewest ==
  LET n == logger.appended
      k == logger.ringBuffer.capacity
      size == IF n < k THEN n ELSE k
      dropped == IF n - k > 0 THEN n - k ELSE 0
  IN /\ logger.ringBuffer.count = size
     /\ toArray(logger.ringBuffer, 0) = [i \in 1..size |-> dropped + i]
     /\ out.op = "getRecentEntries" =>
          out.events[1].result = [i \in 1..size |-> dropped + i]

\* C35 witness: four entries were pushed into a buffer of two slots, which
\* wrapped around twice, and the array read back is entries 3 and 4.
C35_Witness ==
  /\ logger.appended = 4 /\ logger.ringBuffer.capacity = 2
  /\ out.op = "getRecentEntries" /\ out.events[1].result = <<3, 4>>

\* The batches the flush callback was called with, one after the other.
RECURSIVE Flatten(_)
Flatten(batches) ==
  IF batches = <<>> THEN <<>> ELSE Head(batches) \o Flatten(Tail(batches))

\* C36: after every step the entries handed to the flush callback followed
\* by the entries of the batch are the entries appended, each once and in
\* append order; the callback was never called with an empty batch; at most
\* one flush timeout is pending, and one is pending whenever the batch is
\* not empty.  append puts the entry last in the ring buffer and calls no
\* callback; flush() and the batch timer hand over the whole batch in one
\* call when it is not empty, call nothing when it is empty, and leave an
\* empty batch and no pending timeout.
C36_FlushedOnceInOrder ==
  [][LET L == logger'
         recent == toArray(L.ringBuffer, 0)
     IN /\ Flatten(L.flushed) \o L.batch = [i \in 1..L.appended |-> i]
        /\ \A b \in 1..Len(L.flushed) : L.flushed[b] # <<>>
        /\ Cardinality(L.timers) <= 1
        /\ L.batch # <<>> => L.flushTimer \in L.timers
        /\ out'.op = "append" =>
             /\ L.appended = logger.appended + 1
             /\ recent # <<>> /\ recent[Len(recent)] = L.appended
             /\ L.batch = Append(logger.batch, L.appended)
             /\ L.flushed = logger.flushed
        /\ out'.op \in {"flush", "flushTimer"} =>
             /\ L.batch = <<>> /\ L.timers = {} /\ L.flushTimer = 0
             /\ L.flushed = IF logger.batch = <<>> THEN logger.flushed
                             ELSE Append(logger.flushed, logger.batch)]_vars

\* C36 witness: entries 1 and 2 went to the callback in one call, entry 3
\* in a second call made by the batch timer, which has just fired.
C36_Witness ==
  /\ out.op = "flushTimer"
  /\ logger.flushed = << <<1, 2>>, <<3>> >> /\ logger.batch = <<>>
  /\ logger.timers = {}

\* C37: once shutdown() has been called no step spawns a checker process
\* (no worker becomes alive that was not alive before the step), and once
\* shutdown() has completed the pool is empty, whenever the exit events of
\* the workers arrive.
C37_NoSpawnAfterShutdown ==
  [][/\ shutdownCalled =>
          \A p \in Pids : procs'[p].state = "alive" => procs[p].state = "alive"
     /\ (shutdownCalled' /\ ~tsgo'.killing) => pool' = <<>>]_vars

\* C38: after every step the pool holds at most poolSize workers, and
\* neither an exit event nor the memory timer makes the pool grow: the
\* replacement it spawns takes the place of a worker it removed, and a
\* worker already removed and replaced gets no second replacement.
C38_PoolWithinSize ==
  [][/\ Len(pool') <= config.poolSize
     /\ out'.op \in {"tsgoExit", "memoryCheck"} => Len(pool') <= Len(pool)]_vars

\* C40: in every state a non-empty bridge queue implies that activeAnalyses
\* equals maxConcurrentAnalyses, and when no dispatched analysis is
\* unfinished the queue is empty and activeAnalyses is 0.
C40_WorkConserving ==
  /\ queue # <<>> => activeAnalyses = config.maxConcurrentAnalyses
  /\ (\A i \in Ids : req[i].status # "active") =>
       queue = <<>> /\ activeAnalyses = 0

\* C40 witness: with one slot, three calls were made; the first analysis
\* has just finished and its continuation dispatched the next item, while
\* the third still waits in the queue.
C40_Witness ==
  /\ out.op = "executeAnalysis" /\ filesAnalyzedCount = 1
  /\ Len(queue) = 1 /\ activeAnalyses = 1
  /\ config.maxConcurrentAnalyses = 1

\* C39: when timers fire and finitely many calls are made, whatever the
\* checker worker and the lint child do, no call stays queued or in flight
\* for ever: whenever a call is queued or dispatched, a state follows in
\* which every call has settled.
C39_EverySettles ==
  (\E i \in Ids : req[i].status # "free")
    ~> (\A i \in Ids : req[i].status = "free")

\* C39 witness: an analysis whose checker request and lint run were both
\* ended by their timeouts has just resolved, it is not the first to
\* finish, and no call is left queued or in flight.
C39_Witness ==
  /\ out.op = "executeAnalysis" /\ filesAnalyzedCount >= 2
  /\ Len(out.events) = 1 /\ out.events[1].kind = "resolved"
  /\ out.events[1].parts.tsgo.why = "timeout"
  /\ out.events[1].parts.oxc.why = "timeout"
  /\ \A i \in Ids : req[i].status = "free"
====
